---------------------------- MODULE Spec2Model ----------------------------
(***************************************************************************)
(* The data pipeline of the ESP32-C3 data logger: the aggregation task     *)
(* (AggregationTask.cpp) feeds aggregatedDataQueue, from which both the    *)
(* logging task (LoggingTask.cpp, SD card) and the cloud upload task       *)
(* (CloudTask.cpp, MQTT) receive.  A record (AggregatedData) is identified *)
(* by its emission number 1, 2, ...: the n-th record aggregationTask       *)
(* builds.  Tasks interleave freely at their blocking calls (queue, mutex, *)
(* SD card, network, vTaskDelayUntil).  In front of the pipeline the sensor *)
(* task (SensorTask.cpp) stamps one RawReading a tick with the time of the *)
(* DS1308 clock and offers it to rawReadingQueue, which aggregationTask     *)
(* drains into its running statistics.                                     *)
(***************************************************************************)
EXTENDS Integers, Sequences, FiniteSets, TLC

\* ------------------------------------------------------------------ bounds
\* Records aggregationTask builds in a run.
MaxRecords == 3
\* Upload cycles cloudUploadTask starts in a run.
MaxCycles == 2
\* Capacity of aggregatedDataQueue in the model.  Config.h:76 sets
\* AGGREGATED_DATA_QUEUE_SIZE to 10; the model runs the same code with a
\* smaller queue, so that "queue full" is reached within MaxRecords.
StatsQueueCap == 2
\* Ticks of sensorReadingTask in a run.
MaxTicks == 3
\* Capacity of rawReadingQueue in the model.  Config.h:75 sets
\* RAW_READING_QUEUE_SIZE to 60; the model runs the same code with a smaller
\* queue, so that "queue full" is reached within MaxTicks.
RawQueueCap == 2
\* The DS1308 clock counts 0 .. MaxTime.
MaxTime == 2

\* Periodic (daily) cycles of timeSyncTask.
MaxSyncCycles == 2
\* Records delivered to loggingTask in a run of SpecRedelivery.
MaxDeliveries == 4

Ids == 1..MaxRecords
NoRecord == 0
\* The calendar day of a record's start_timestamp (getLogFilename): two
\* consecutive records share a day, so that a file is both created and
\* appended to.
DayOf(id) == (id + 1) \div 2
Days == {DayOf(id) : id \in Ids}
\* A file of the card: whether it exists, the header lines written to it and
\* the data rows appended to it, in order.
NoFile == [exists |-> FALSE, headers |-> 0, rows |-> <<>>]

VARIABLES
    \* the DS1308 clock and sensorReadingTask
    rtc,                  \* the time the DS1308 counts
    sensPc,               \* "init" | "run"
    rtcFound,             \* DS1308Sensor::rtcFound
    activeSensors,        \* names of the sensors whose begin() succeeded
    rawReadingQueue,      \* FIFO of RawReading
    rawDropped,           \* history: readings the full raw queue refused
    ticks,                \* history: ticks of sensorReadingTask completed
    \* aggregationTask
    aggPc,                \* "tick" | "send"
    aggData,              \* the AggregatedData being sent (NoRecord: none)
    emitted,              \* records built so far
    ds18b20Stats,         \* RunningStats of the four channels
    sht40TempStats,
    sht40HumStats,
    soilMoistureStats,
    windowStartTime,
    windowEndTime,
    readingsCollected,    \* of the tick under way (0 between ticks)
    aggFields,            \* the fields of the AggregatedData being sent
    drained,              \* history: the readings received in this tick
    sampleCountSum,       \* history: sum of sample_count over the records built
    lastTick,             \* history: how the last tick ended:
                          \* "none" | "empty" | "sent" | "timeout"
    \* the stats queue
    aggregatedDataQueue,  \* FIFO of record ids
    \* loggingTask
    logPc,                \* "init" | "recv" | "remount" | "take" | "write"
    logData,              \* the record loggingTask holds
    sdCardInitialized,
    successfulWrites,
    failedWrites,
    sdCardMutex,          \* holder: "free" | "logging" | "other"
    sdFiles,              \* day -> the file of that day (NoFile: none)
    csvWritten,           \* the record writeDataToSD formatted last and
                          \* the text of its row (SpecCsv)
    \* cloudUploadTask
    upPc,                 \* "start" | "mqtt" | "drain" | "publish" | "teardown" | "sleep"
    upData,               \* the record cloudUploadTask holds
    uploadCycles,
    successfulUploads,
    failedUploads,
    itemsUploaded,
    wifiConnected,
    mqttConnected,
    wifiMode,             \* "WIFI_OFF" | "WIFI_STA"
    wifiLink,             \* WiFi.status() == WL_CONNECTED
    mqttLink,             \* mqttClient.connected()
    \* timeSyncTask
    tsPc,                 \* "boot" | "retry" | "periodic" | "connect" | "ntp"
                          \* | "update" | "readback" | "cleanup"
    tsPhase,              \* the loop performTimeSync was called from:
                          \* "startup" | "periodic"
    attempts,
    syncCycles,
    tsSuccess,            \* the local success of performTimeSync
    initialSyncComplete,
    lastSyncTime,
    tsFailure,            \* history: the step the attempt under way failed at
    tsWrote,              \* history: the attempt under way called rtc.adjust
    tsPolled,             \* history: a getLocalTime poll of the attempt under
                          \* way succeeded
    tsNow,                \* history: the system time updateRTCFromNTP read
    \* shared status record
    systemStatus,
    statusWriters,        \* history: the tasks that assigned each field
    \* history (not program state)
    enqueued,             \* ids xQueueSend accepted into the stats queue
    dropped,              \* ids aggregationTask dropped on its send timeout
    logReceived,          \* ids loggingTask received, in order
    upReceived,           \* ids cloudUploadTask received, in order
    published,            \* ids published successfully, in order
    cycRecv,              \* ids received in the current upload cycle
    cycFail,              \* ids whose publish failed in the current cycle
    lostOnRequeue         \* ids xQueueSendToFront could not put back

sensVars == <<rtc, sensPc, rtcFound, activeSensors, rawReadingQueue,
              rawDropped, ticks>>
winVars == <<ds18b20Stats, sht40TempStats, sht40HumStats, soilMoistureStats,
             windowStartTime, windowEndTime, readingsCollected, aggFields,
             drained, sampleCountSum, lastTick>>
aggVars == <<aggPc, aggData, emitted, enqueued, dropped, winVars>>
logVars == <<logPc, logData, sdCardInitialized, successfulWrites, failedWrites,
             sdCardMutex, sdFiles, csvWritten, logReceived>>
upVars  == <<upPc, upData, uploadCycles, successfulUploads, failedUploads,
             itemsUploaded, wifiConnected, mqttConnected, wifiMode, wifiLink,
             mqttLink, published, upReceived, cycRecv, cycFail, lostOnRequeue>>
tsVars  == <<tsPc, tsPhase, attempts, syncCycles, tsSuccess,
             initialSyncComplete, lastSyncTime, tsFailure, tsWrote, tsPolled,
             tsNow>>
vars == <<sensVars, aggVars, aggregatedDataQueue, logVars, upVars, tsVars,
          systemStatus, statusWriters>>

\* ------------------------------------------------------------------ floats
\* A float is NaN, an infinity or a number; a number is kept exactly, as the
\* fraction num/den with den > 0 (the rounding of float arithmetic is not
\* modelled).
NAN == [kind |-> "nan", num |-> 0, den |-> 1]
INFINITY == [kind |-> "+inf", num |-> 0, den |-> 1]
NegINFINITY == [kind |-> "-inf", num |-> 0, den |-> 1]
Float(n) == [kind |-> "num", num |-> n, den |-> 1]
isnan(x) == x.kind = "nan"
\* a < b as IEEE 754 compares: false when either side is NaN.
FloatLess(a, b) ==
    IF isnan(a) \/ isnan(b) THEN FALSE
    ELSE IF a.kind = "-inf" THEN b.kind # "-inf"
    ELSE IF a.kind = "+inf" THEN FALSE
    ELSE IF b.kind = "-inf" THEN FALSE
    ELSE IF b.kind = "+inf" THEN TRUE
    ELSE a.num * b.den < b.num * a.den
\* a == b: false when either side is NaN.
FloatEq(a, b) ==
    IF isnan(a) \/ isnan(b) THEN FALSE
    ELSE IF a.kind # "num" \/ b.kind # "num" THEN a.kind = b.kind
    ELSE a.num * b.den = b.num * a.den
\* a + b of two numbers.
FloatAdd(a, b) ==
    [kind |-> "num", num |-> a.num * b.den + b.num * a.den, den |-> a.den * b.den]
\* a / n of a number by a count n > 0.
FloatDiv(a, n) == [kind |-> "num", num |-> a.num, den |-> a.den * n]

\* ------------------------------------------------------------ RunningStats
\* RunningStats(): minVal(INFINITY), maxVal(-INFINITY), sum(0.0), count(0).
RunningStats ==
    [minVal |-> INFINITY, maxVal |-> NegINFINITY, sum |-> Float(0), count |-> 0]

reset(stats) ==
    [minVal |-> INFINITY, maxVal |-> NegINFINITY, sum |-> Float(0), count |-> 0]

\* Mutant of addValue: a NaN is counted (and nothing else done with it).
addValue_countsNaN(stats, value) ==
    IF ~isnan(value)
      THEN [minVal |-> IF FloatLess(value, stats.minVal) THEN value
                                                       ELSE stats.minVal,
            maxVal |-> IF FloatLess(stats.maxVal, value) THEN value
                                                       ELSE stats.maxVal,
            sum    |-> FloatAdd(stats.sum, value),
            count  |-> stats.count + 1]
      ELSE [stats EXCEPT !.count = @ + 1]

addValue(stats, value) ==
    IF ~isnan(value)
      THEN [minVal |-> IF FloatLess(value, stats.minVal) THEN value
                                                       ELSE stats.minVal,
            maxVal |-> IF FloatLess(stats.maxVal, value) THEN value
                                                       ELSE stats.maxVal,
            sum    |-> FloatAdd(stats.sum, value),
            count  |-> stats.count + 1]
      ELSE stats

getMin(stats) == IF stats.count > 0 THEN stats.minVal ELSE NAN
getMax(stats) == IF stats.count > 0 THEN stats.maxVal ELSE NAN
getAvg(stats) == IF stats.count > 0 THEN FloatDiv(stats.sum, stats.count) ELSE NAN

\* ----------------------------------------------------------------- sensors
\* Model time: the DS1308 counts seconds; 0 is the time of a clock that lost
\* power (2000-01-01), Year2020 the first second of 2020 and Year2100 the
\* last second of 2100.
RtcPowerLoss == 0
Year2020 == 1
Year2100 == 2

\* RawReading(): timestamp(0), every channel NAN.
RawReading ==
    [timestamp |-> 0, ds18b20_temp |-> NAN, sht40_temp |-> NAN,
     sht40_humidity |-> NAN, sen0193_moisture_raw |-> NAN]

\* AggregatedData(): timestamps and sample_count 0, every statistic NAN.
AggregatedData ==
    [start_timestamp |-> 0, end_timestamp |-> 0, sample_count |-> 0,
     ds18b20_avg |-> NAN, ds18b20_min |-> NAN, ds18b20_max |-> NAN,
     sht40_temp_avg |-> NAN, sht40_temp_min |-> NAN, sht40_temp_max |-> NAN,
     sht40_hum_avg |-> NAN, sht40_hum_min |-> NAN, sht40_hum_max |-> NAN,
     soil_moisture_avg |-> NAN, soil_moisture_min |-> NAN,
     soil_moisture_max |-> NAN]

\* DallasTemperature's DEVICE_DISCONNECTED_C.
DEVICE_DISCONNECTED_C == -127
\* What the hardware can answer in a tick.  DS18B20: getTempC.
TempCs == {DEVICE_DISCONNECTED_C, 20, 22}
\* SHT40: getEvent's result and the two values.
ShtEvents ==
    { [ok |-> FALSE, temperature |-> 21, relative_humidity |-> 40],
      [ok |-> TRUE,  temperature |-> 21, relative_humidity |-> 40],
      [ok |-> TRUE,  temperature |-> 21, relative_humidity |-> 101] }
\* SEN0193: readRawADC.
RawADCs == {1500}

\* DS1308Sensor::read: fails without a found clock and for a year outside
\* 2020..2100; otherwise data.timestamp is the clock's unixtime.
DS1308Sensor_read(found, now, data) ==
    IF ~found THEN [ok |-> FALSE, data |-> data]
    ELSE IF now < Year2020 \/ now > Year2100 THEN [ok |-> FALSE, data |-> data]
    ELSE [ok |-> TRUE, data |-> [data EXCEPT !.timestamp = now]]

\* Mutant of DS18B20Sensor_read: the value is stored before it is validated.
DS18B20Sensor_read_storeFirst(tempC, data) ==
    IF tempC = DEVICE_DISCONNECTED_C
      THEN [ok |-> FALSE, data |-> [data EXCEPT !.ds18b20_temp = Float(tempC)]]
    ELSE IF tempC < -55 \/ tempC > 125
      THEN [ok |-> FALSE, data |-> [data EXCEPT !.ds18b20_temp = Float(tempC)]]
    ELSE [ok |-> TRUE, data |-> [data EXCEPT !.ds18b20_temp = Float(tempC)]]

\* DS18B20Sensor::read (the sensor is in activeSensors: sensorFound is true).
DS18B20Sensor_read(tempC, data) ==
    IF tempC = DEVICE_DISCONNECTED_C THEN [ok |-> FALSE, data |-> data]
    ELSE IF tempC < -55 \/ tempC > 125 THEN [ok |-> FALSE, data |-> data]
    ELSE [ok |-> TRUE, data |-> [data EXCEPT !.ds18b20_temp = Float(tempC)]]

\* SHT40Sensor::read.
SHT40Sensor_read(event, data) ==
    IF ~event.ok THEN [ok |-> FALSE, data |-> data]
    ELSE IF event.temperature < -40 \/ event.temperature > 125
      THEN [ok |-> FALSE, data |-> data]
    ELSE IF event.relative_humidity < 0 \/ event.relative_humidity > 100
      THEN [ok |-> FALSE, data |-> data]
    ELSE [ok |-> TRUE,
          data |-> [data EXCEPT !.sht40_temp = Float(event.temperature),
                                !.sht40_humidity = Float(event.relative_humidity)]]

\* SEN0193Sensor::read: always succeeds once initialized.
SEN0193Sensor_read(rawValue, data) ==
    [ok |-> TRUE, data |-> [data EXCEPT !.sen0193_moisture_raw = Float(rawValue)]]

\* STEP 1 and STEP 2 of a tick of sensorReadingTask: the timestamp, then every
\* active sensor in turn, each on the reading the one before it left.
\* readingValid is the outcome of the clock read alone.
ReadSensors(found, now, active, tempC, event, rawValue) ==
    LET r0 == DS1308Sensor_read(found, now, RawReading)
        d0 == IF r0.ok THEN r0.data ELSE [r0.data EXCEPT !.timestamp = 0]
        d1 == IF "DS18B20" \in active THEN DS18B20Sensor_read(tempC, d0).data
                                      ELSE d0
        d2 == IF "SHT40" \in active THEN SHT40Sensor_read(event, d1).data
                                    ELSE d1
        d3 == IF "SEN0193" \in active THEN SEN0193Sensor_read(rawValue, d2).data
                                      ELSE d2
    IN  [readingValid |-> r0.ok, reading |-> d3]

\* ----------------------------------------------------------- FreeRTOS queue
\* xQueueSend / xQueueSendToBack with space available.
QueueSendToBack(q, item) == Append(q, item)

\* Mutant of QueueSendToFront: the failed record is sent to the back
\* (xQueueSend instead of xQueueSendToFront).
QueueSendToFront_back(q, item) ==
    IF Len(q) < StatsQueueCap THEN Append(q, item) ELSE q

\* xQueueSendToFront(queue, &item, 0): the item becomes the head when there
\* is space; with a full queue and no wait the call returns errQUEUE_FULL and
\* the queue is unchanged.
QueueSendToFront(q, item) ==
    IF Len(q) < StatsQueueCap THEN <<item>> \o q ELSE q

QueueFull(q) == Len(q) >= StatsQueueCap

\* rawReadingQueue is full.
RawQueueFull(q) == Len(q) >= RawQueueCap

\* ------------------------------------------------------------- the CSV text
\* Text is a sequence of tokens: a comma, a newline, a column name of the
\* header, an integer printf prints with %ld or %d, and a float printf
\* prints with %.<digits>f, which is the text nan for a NaN and inf for an
\* infinity.  A printed number is one token, kept as its value and its
\* digits (no printed number holds a comma).
Token(kind, text, value, digits) ==
    [kind |-> kind, text |-> text, value |-> value, digits |-> digits]
Comma == Token("comma", ",", NAN, 0)
Newline == Token("newline", "", NAN, 0)
PrintInt(n) == Token("int", "", Float(n), 0)
PrintFixed(x, digits) ==
    IF isnan(x) THEN Token("nan", "nan", x, digits)
    ELSE IF x.kind # "num" THEN Token("inf", "inf", x, digits)
    ELSE Token("fixed", "", x, digits)

\* The columns of the header line ensureFileWithHeaders prints.
HeaderColumns ==
    <<"timestamp_start", "timestamp_end", "samples",
      "ds18b20_avg", "ds18b20_min", "ds18b20_max",
      "sht40_temp_avg", "sht40_temp_min", "sht40_temp_max",
      "sht40_hum_avg", "sht40_hum_min", "sht40_hum_max",
      "soil_avg", "soil_min", "soil_max">>

\* file.println(header): the names with a comma between two of them.
HeaderLine ==
    [i \in 1..(2 * Len(HeaderColumns) - 1) |->
        IF i % 2 = 1 THEN Token("name", HeaderColumns[(i + 1) \div 2], NAN, 0)
                     ELSE Comma]
    \o <<Newline>>

\* Mutant of FormatRow: the DS18B20 statistics are printed with printf
\* whether or not they are NaN.
FormatRow_printsNaN(data) ==
    <<PrintInt(data.start_timestamp), Comma, PrintInt(data.end_timestamp),
      Comma, PrintInt(data.sample_count), Comma>>
    \o <<PrintFixed(data.ds18b20_avg, 2), Comma,
         PrintFixed(data.ds18b20_min, 2), Comma,
         PrintFixed(data.ds18b20_max, 2), Comma>>
    \o (IF isnan(data.sht40_temp_avg)
          THEN <<Comma, Comma, Comma>>
          ELSE <<PrintFixed(data.sht40_temp_avg, 2), Comma,
                 PrintFixed(data.sht40_temp_min, 2), Comma,
                 PrintFixed(data.sht40_temp_max, 2), Comma>>)
    \o (IF isnan(data.sht40_hum_avg)
          THEN <<Comma, Comma, Comma>>
          ELSE <<PrintFixed(data.sht40_hum_avg, 1), Comma,
                 PrintFixed(data.sht40_hum_min, 1), Comma,
                 PrintFixed(data.sht40_hum_max, 1), Comma>>)
    \o (IF isnan(data.soil_moisture_avg)
          THEN <<Comma, Comma>>
          ELSE <<PrintFixed(data.soil_moisture_avg, 0), Comma,
                 PrintFixed(data.soil_moisture_min, 0), Comma,
                 PrintFixed(data.soil_moisture_max, 0)>>)
    \o <<Newline>>

\* The row writeDataToSD prints for a record: the two timestamps and the
\* sample count, then the statistics of each channel, which are left empty
\* when the channel's average is NaN, then the newline.
FormatRow(data) ==
    <<PrintInt(data.start_timestamp), Comma, PrintInt(data.end_timestamp),
      Comma, PrintInt(data.sample_count), Comma>>
    \o (IF isnan(data.ds18b20_avg)
          THEN <<Comma, Comma, Comma>>
          ELSE <<PrintFixed(data.ds18b20_avg, 2), Comma,
                 PrintFixed(data.ds18b20_min, 2), Comma,
                 PrintFixed(data.ds18b20_max, 2), Comma>>)
    \o (IF isnan(data.sht40_temp_avg)
          THEN <<Comma, Comma, Comma>>
          ELSE <<PrintFixed(data.sht40_temp_avg, 2), Comma,
                 PrintFixed(data.sht40_temp_min, 2), Comma,
                 PrintFixed(data.sht40_temp_max, 2), Comma>>)
    \o (IF isnan(data.sht40_hum_avg)
          THEN <<Comma, Comma, Comma>>
          ELSE <<PrintFixed(data.sht40_hum_avg, 1), Comma,
                 PrintFixed(data.sht40_hum_min, 1), Comma,
                 PrintFixed(data.sht40_hum_max, 1), Comma>>)
    \o (IF isnan(data.soil_moisture_avg)
          THEN <<Comma, Comma>>
          ELSE <<PrintFixed(data.soil_moisture_avg, 0), Comma,
                 PrintFixed(data.soil_moisture_min, 0), Comma,
                 PrintFixed(data.soil_moisture_max, 0)>>)
    \o <<Newline>>

\* No row formatted yet.
NoRow == [data |-> AggregatedData, text |-> <<>>]

\* The statistics a channel can have in a record: none (no reading of the
\* window had a value: average, minimum and maximum are NaN together), one
\* value, or two values v and v + 1.
ChannelStats(v) ==
    { [avg |-> NAN, min |-> NAN, max |-> NAN],
      [avg |-> Float(v), min |-> Float(v), max |-> Float(v)],
      [avg |-> FloatDiv(Float(2 * v + 1), 2), min |-> Float(v),
       max |-> Float(v + 1)] }

\* The records writeDataToSD is applied to in SpecCsv: every combination of
\* channels with and without data.
CsvInputs ==
    { [start_timestamp |-> Year2020, end_timestamp |-> e, sample_count |-> n,
       ds18b20_avg |-> ds.avg, ds18b20_min |-> ds.min, ds18b20_max |-> ds.max,
       sht40_temp_avg |-> st.avg, sht40_temp_min |-> st.min,
       sht40_temp_max |-> st.max,
       sht40_hum_avg |-> sh.avg, sht40_hum_min |-> sh.min,
       sht40_hum_max |-> sh.max,
       soil_moisture_avg |-> so.avg, soil_moisture_min |-> so.min,
       soil_moisture_max |-> so.max] :
      e \in {Year2020, Year2100}, n \in {1, 2},
      ds \in ChannelStats(-5), st \in ChannelStats(21),
      sh \in ChannelStats(40), so \in ChannelStats(1500) }

\* ------------------------------------------------------------ SystemStatus
\* The fields of SystemStatus the tasks assign.
StatusFields ==
    {"wifi_connected", "mqtt_connected", "sd_card_ok", "total_readings",
     "failed_readings", "sd_write_errors", "mqtt_errors"}

\* The task assigns the fields (history).
WritesStatus(task, fields) ==
    statusWriters' = [f \in StatusFields |->
                        IF f \in fields THEN statusWriters[f] \cup {task}
                                        ELSE statusWriters[f]]

\* ------------------------------------------------------------------- Init
Init ==
    /\ rtc = RtcPowerLoss
    /\ sensPc = "init"
    /\ rtcFound = FALSE
    /\ activeSensors = {}
    /\ rawReadingQueue = <<>>
    /\ rawDropped = 0
    /\ ticks = 0
    /\ aggPc = "tick"
    /\ aggData = NoRecord
    /\ emitted = 0
    /\ ds18b20Stats = RunningStats
    /\ sht40TempStats = RunningStats
    /\ sht40HumStats = RunningStats
    /\ soilMoistureStats = RunningStats
    /\ windowStartTime = 0
    /\ windowEndTime = 0
    /\ readingsCollected = 0
    /\ aggFields = AggregatedData
    /\ drained = <<>>
    /\ sampleCountSum = 0
    /\ lastTick = "none"
    /\ aggregatedDataQueue = <<>>
    /\ logPc = "init"
    /\ logData = NoRecord
    /\ sdCardInitialized = FALSE
    /\ successfulWrites = 0
    /\ failedWrites = 0
    /\ sdCardMutex = "free"
    /\ sdFiles = [d \in Days |-> NoFile]
    /\ csvWritten = NoRow
    /\ upPc = "start"
    /\ upData = NoRecord
    /\ uploadCycles = 0
    /\ successfulUploads = 0
    /\ failedUploads = 0
    /\ itemsUploaded = 0
    /\ wifiConnected = FALSE
    /\ mqttConnected = FALSE
    /\ wifiMode = "WIFI_OFF"
    /\ wifiLink = FALSE
    /\ mqttLink = FALSE
    /\ tsPc = "boot"
    /\ tsPhase = "startup"
    /\ attempts = 0
    /\ syncCycles = 0
    /\ tsSuccess = FALSE
    /\ initialSyncComplete = FALSE
    /\ lastSyncTime = 0
    /\ tsFailure = "none"
    /\ tsWrote = FALSE
    /\ tsPolled = FALSE
    /\ tsNow = 0
    /\ systemStatus = [wifi_connected |-> FALSE, mqtt_connected |-> FALSE,
                       sd_card_ok |-> FALSE, total_readings |-> 0,
                       failed_readings |-> 0, sd_write_errors |-> 0,
                       mqtt_errors |-> 0]
    /\ statusWriters = [f \in StatusFields |-> {}]
    /\ enqueued = {}
    /\ dropped = {}
    /\ logReceived = <<>>
    /\ upReceived = <<>>
    /\ published = <<>>
    /\ cycRecv = <<>>
    /\ cycFail = <<>>
    /\ lostOnRequeue = {}

\* ------------------------------------------------------ the DS1308 clock
\* The clock counts a second.
RtcSecond ==
    /\ rtc < MaxTime
    /\ rtc' = rtc + 1
    /\ UNCHANGED <<tsVars, sensPc, rtcFound, activeSensors, rawReadingQueue,
                   rawDropped, ticks, aggVars,
                   aggregatedDataQueue, logVars, upVars, systemStatus,
                   statusWriters>>

\* updateRTCFromNTP up to the write of the clock: the system time now (set
\* from NTP) is refused when it is before 2020, and rtc->setTime(now)
\* adjusts the clock when the clock was found.  The read-back that follows
\* does not write the clock.
TimeSyncSetRTC(now) ==
    /\ sensPc = "run"
    /\ ~(now < Year2020)
    /\ rtcFound
    /\ rtc' = now
    /\ UNCHANGED <<tsVars, sensPc, rtcFound, activeSensors, rawReadingQueue,
                   rawDropped, ticks, aggVars,
                   aggregatedDataQueue, logVars, upVars, systemStatus,
                   statusWriters>>

\* ------------------------------------------------------ sensorReadingTask
\* initializeSensors(): each sensor whose begin() succeeds joins
\* activeSensors; SEN0193Sensor::begin always succeeds.  rtcSensor is created
\* whatever DS1308Sensor::begin returns, which sets rtcFound.
SensorInit(rtcBegin, dsBegin, shtBegin) ==
    /\ sensPc = "init"
    /\ rtcFound' = rtcBegin
    /\ activeSensors' = (IF dsBegin THEN {"DS18B20"} ELSE {})
                        \cup (IF shtBegin THEN {"SHT40"} ELSE {})
                        \cup {"SEN0193"}
    /\ sensPc' = "run"
    /\ UNCHANGED <<tsVars, rtc, rawReadingQueue, rawDropped, ticks, aggVars,
                   aggregatedDataQueue,
                   logVars, upVars, systemStatus, statusWriters>>

\* Mutant of SendReading: a reading is sent whether or not it is valid.
SendReading_alsoInvalid(q, status, readingValid, reading) ==
    IF ~RawQueueFull(q)
      THEN [queue |-> Append(q, reading),
            status |-> [status EXCEPT !.total_readings = @ + 1]]
      ELSE [queue |-> q,
            status |-> [status EXCEPT !.failed_readings = @ + 1]]

\* Mutant of SendReading: a reading dropped on the full queue is not counted.
SendReading_dropUncounted(q, status, readingValid, reading) ==
    IF readingValid
      THEN IF ~RawQueueFull(q)
             THEN [queue |-> Append(q, reading),
                   status |-> [status EXCEPT !.total_readings = @ + 1]]
             ELSE [queue |-> q, status |-> status]
      ELSE [queue |-> q,
            status |-> [status EXCEPT !.failed_readings = @ + 1]]

\* STEP 3 of a tick: a valid reading is sent with xQueueSend(rawReadingQueue,
\* &reading, 0), counted in total_readings when the queue took it and in
\* failed_readings when the queue was full; a reading without timestamp is
\* not sent and counted in failed_readings.
SendReading(q, status, readingValid, reading) ==
    IF readingValid
      THEN IF ~RawQueueFull(q)
             THEN [queue |-> Append(q, reading),
                   status |-> [status EXCEPT !.total_readings = @ + 1]]
             ELSE [queue |-> q,
                   status |-> [status EXCEPT !.failed_readings = @ + 1]]
      ELSE [queue |-> q,
            status |-> [status EXCEPT !.failed_readings = @ + 1]]

\* One tick of sensorReadingTask, from the new RawReading to vTaskDelayUntil.
\* tempC, event, rawValue: what the sensors answer in this tick.
SensorTick(tempC, event, rawValue) ==
    LET r == ReadSensors(rtcFound, rtc, activeSensors, tempC, event, rawValue)
        s == SendReading(rawReadingQueue, systemStatus, r.readingValid,
                         r.reading)
    IN  /\ sensPc = "run"
        /\ ticks < MaxTicks
        /\ ticks' = ticks + 1
        /\ rawReadingQueue' = s.queue
        /\ systemStatus' = s.status
        /\ WritesStatus("sensorReadingTask",
                        {f \in StatusFields : s.status[f] # systemStatus[f]})
        /\ rawDropped' = IF r.readingValid /\ RawQueueFull(rawReadingQueue)
                           THEN rawDropped + 1 ELSE rawDropped
        /\ UNCHANGED <<tsVars, rtc, sensPc, rtcFound, activeSensors, aggVars,
                       aggregatedDataQueue, logVars, upVars>>

\* -------------------------------------------------------- aggregationTask
\* One tick up to the send, as the stats queue sees it: the drain of the raw
\* queue collected readings (collected) or not; with readings a record is
\* built and the task goes to xQueueSend, without it sleeps until the next
\* tick.  (AggDrain is the same tick with the raw queue and the statistics.)
AggTick(collected) ==
    /\ aggPc = "tick"
    /\ emitted < MaxRecords
    /\ IF collected
         THEN /\ emitted' = emitted + 1
              /\ aggData' = emitted + 1
              /\ aggPc' = "send"
              /\ UNCHANGED lastTick
         ELSE /\ lastTick' = "empty"
              /\ UNCHANGED <<emitted, aggData, aggPc>>
    /\ UNCHANGED <<ds18b20Stats, sht40TempStats, sht40HumStats,
                   soilMoistureStats, windowStartTime, windowEndTime,
                   readingsCollected, aggFields, drained, sampleCountSum>>
    /\ UNCHANGED <<tsVars, enqueued, dropped, aggregatedDataQueue, sensVars, logVars,
                   upVars, systemStatus, statusWriters>>

\* "Track time window" of the drain loop: the start is set while it is 0,
\* the end on every reading.
TrackWindow(start, end, timestamp) ==
    [start |-> IF start = 0 THEN timestamp ELSE start, end |-> timestamp]

\* Mutant of Accumulate: a reading without DS18B20 value is received and
\* left out of the window.
Accumulate_skipsNaN(w, rawReading) ==
    IF isnan(rawReading.ds18b20_temp) THEN w
    ELSE LET t == TrackWindow(w.windowStartTime, w.windowEndTime,
                              rawReading.timestamp)
         IN  [windowStartTime   |-> t.start,
              windowEndTime     |-> t.end,
              ds18b20Stats      |-> addValue(w.ds18b20Stats,
                                             rawReading.ds18b20_temp),
              sht40TempStats    |-> addValue(w.sht40TempStats,
                                             rawReading.sht40_temp),
              sht40HumStats     |-> addValue(w.sht40HumStats,
                                             rawReading.sht40_humidity),
              soilMoistureStats |-> addValue(w.soilMoistureStats,
                                             rawReading.sen0193_moisture_raw),
              readingsCollected |-> w.readingsCollected + 1]

\* The body of the drain loop for one reading received: the window, the
\* four statistics, the count.  w holds the task's locals.
Accumulate(w, rawReading) ==
    LET t == TrackWindow(w.windowStartTime, w.windowEndTime,
                         rawReading.timestamp)
    IN  [windowStartTime   |-> t.start,
         windowEndTime     |-> t.end,
         ds18b20Stats      |-> addValue(w.ds18b20Stats, rawReading.ds18b20_temp),
         sht40TempStats    |-> addValue(w.sht40TempStats, rawReading.sht40_temp),
         sht40HumStats     |-> addValue(w.sht40HumStats,
                                        rawReading.sht40_humidity),
         soilMoistureStats |-> addValue(w.soilMoistureStats,
                                        rawReading.sen0193_moisture_raw),
         readingsCollected |-> w.readingsCollected + 1]

\* while (xQueueReceive(rawReadingQueue, &rawReading, 0) == pdTRUE): every
\* reading of the queue, from its head, until the queue is empty.
RECURSIVE DrainLoop(_, _)
DrainLoop(w, q) ==
    IF q = <<>> THEN w ELSE DrainLoop(Accumulate(w, Head(q)), Tail(q))

\* The AggregatedData of STEP 2, from the window and the four statistics.
BuildAggregatedData(w) ==
    [start_timestamp |-> w.windowStartTime,
     end_timestamp |-> w.windowEndTime,
     sample_count |-> w.readingsCollected,
     ds18b20_avg |-> getAvg(w.ds18b20Stats),
     ds18b20_min |-> getMin(w.ds18b20Stats),
     ds18b20_max |-> getMax(w.ds18b20Stats),
     sht40_temp_avg |-> getAvg(w.sht40TempStats),
     sht40_temp_min |-> getMin(w.sht40TempStats),
     sht40_temp_max |-> getMax(w.sht40TempStats),
     sht40_hum_avg |-> getAvg(w.sht40HumStats),
     sht40_hum_min |-> getMin(w.sht40HumStats),
     sht40_hum_max |-> getMax(w.sht40HumStats),
     soil_moisture_avg |-> getAvg(w.soilMoistureStats),
     soil_moisture_min |-> getMin(w.soilMoistureStats),
     soil_moisture_max |-> getMax(w.soilMoistureStats)]

\* Mutant of HasReadings: a record is built in every tick.
HasReadings_always(collected) == TRUE

\* if (readingsCollected > 0): whether the tick builds and sends a record.
HasReadings(collected) == collected > 0

\* One tick up to the send, with the raw queue and the statistics: the drain
\* loop (readingsCollected starts at 0, the statistics and the window are
\* what the tick before left), then, with readings, the record and the way
\* to xQueueSend; without readings nothing is built or reset and the task
\* sleeps until the next tick.
AggDrain ==
    LET w == DrainLoop([windowStartTime   |-> windowStartTime,
                        windowEndTime     |-> windowEndTime,
                        ds18b20Stats      |-> ds18b20Stats,
                        sht40TempStats    |-> sht40TempStats,
                        sht40HumStats     |-> sht40HumStats,
                        soilMoistureStats |-> soilMoistureStats,
                        readingsCollected |-> 0],
                       rawReadingQueue)
    IN  /\ aggPc = "tick"
        /\ emitted < MaxRecords
        /\ rawReadingQueue' = <<>>
        /\ drained' = rawReadingQueue
        /\ windowStartTime' = w.windowStartTime
        /\ windowEndTime' = w.windowEndTime
        /\ ds18b20Stats' = w.ds18b20Stats
        /\ sht40TempStats' = w.sht40TempStats
        /\ sht40HumStats' = w.sht40HumStats
        /\ soilMoistureStats' = w.soilMoistureStats
        /\ readingsCollected' = w.readingsCollected
        /\ IF HasReadings(w.readingsCollected)
             THEN /\ emitted' = emitted + 1
                  /\ aggData' = emitted + 1
                  /\ aggFields' = BuildAggregatedData(w)
                  /\ sampleCountSum' = sampleCountSum + w.readingsCollected
                  /\ aggPc' = "send"
                  /\ UNCHANGED lastTick
             ELSE /\ lastTick' = "empty"
                  /\ UNCHANGED <<emitted, aggData, aggFields, sampleCountSum,
                                 aggPc>>
        /\ UNCHANGED <<tsVars, enqueued, dropped, rtc, sensPc, rtcFound,
                       activeSensors, rawDropped, ticks, aggregatedDataQueue,
                       logVars, upVars, systemStatus, statusWriters>>

\* Mutant of ResetWindow: the window bounds are left as they are.
ResetWindow_keepBounds ==
    /\ ds18b20Stats' = reset(ds18b20Stats)
    /\ sht40TempStats' = reset(sht40TempStats)
    /\ sht40HumStats' = reset(sht40HumStats)
    /\ soilMoistureStats' = reset(soilMoistureStats)
    /\ UNCHANGED <<windowStartTime, windowEndTime>>

\* STEP 4, after the send whatever it returned: the four statistics and the
\* window bounds are reset.
ResetWindow ==
    /\ ds18b20Stats' = reset(ds18b20Stats)
    /\ sht40TempStats' = reset(sht40TempStats)
    /\ sht40HumStats' = reset(sht40HumStats)
    /\ soilMoistureStats' = reset(soilMoistureStats)
    /\ windowStartTime' = 0
    /\ windowEndTime' = 0

\* xQueueSend(aggregatedDataQueue, &aggData, 1000 ms) finds space; the reset
\* and the sleep until the next tick.
AggSend ==
    /\ aggPc = "send"
    /\ ~QueueFull(aggregatedDataQueue)
    /\ aggregatedDataQueue' = QueueSendToBack(aggregatedDataQueue, aggData)
    /\ enqueued' = enqueued \cup {aggData}
    /\ aggData' = NoRecord
    /\ aggFields' = AggregatedData
    /\ ResetWindow
    /\ readingsCollected' = 0
    /\ drained' = <<>>
    /\ lastTick' = "sent"
    /\ aggPc' = "tick"
    /\ UNCHANGED <<tsVars, emitted, dropped, sampleCountSum, sensVars, logVars,
                   upVars, systemStatus, statusWriters>>

\* Mutant of AggSendTimeout: xQueueSend waits with portMAX_DELAY, so that the
\* call never returns on a full queue.
AggSendTimeout_portMaxDelay ==
    /\ aggPc = "send"
    /\ FALSE
    /\ UNCHANGED vars

\* xQueueSend times out: the queue stayed full for 1 s; the record is
\* dropped with a log line only; the reset and the sleep.
AggSendTimeout ==
    /\ aggPc = "send"
    /\ QueueFull(aggregatedDataQueue)
    /\ dropped' = dropped \cup {aggData}
    /\ aggData' = NoRecord
    /\ aggFields' = AggregatedData
    /\ ResetWindow
    /\ readingsCollected' = 0
    /\ drained' = <<>>
    /\ lastTick' = "timeout"
    /\ aggPc' = "tick"
    /\ UNCHANGED <<tsVars, emitted, enqueued, sampleCountSum, aggregatedDataQueue,
                   sensVars, logVars, upVars, systemStatus,
                   statusWriters>>


\* ------------------------------------------------------------ loggingTask
\* initializeSDCard(): SPI.begin, SD.begin, SD.cardType.  mounted is the
\* outcome of the mount (card present and readable).
initializeSDCard(mounted) == mounted

\* Mutant of writeDataToSD: the row is printed twice.
writeDataToSD_rowTwice(files, data, createOk, appendOk) ==
    LET d == DayOf(data)
        ensured == files[d].exists \/ createOk
        afterEnsure == IF ~files[d].exists /\ createOk
                         THEN [files EXCEPT ![d] = [exists |-> TRUE,
                                                    headers |-> 1,
                                                    rows |-> <<>>]]
                         ELSE files
    IN  IF ~ensured THEN [files |-> files, success |-> FALSE]
        ELSE IF ~appendOk THEN [files |-> afterEnsure, success |-> FALSE]
        ELSE [files |-> [afterEnsure EXCEPT
                            ![d].rows = Append(Append(@, data), data)],
              success |-> TRUE]

\* Mutant of writeDataToSD: the header line is printed by every write,
\* whether or not the file was there.
writeDataToSD_headerEveryWrite(files, data, createOk, appendOk) ==
    LET d == DayOf(data)
        exists == files[d].exists
        ensured == exists \/ createOk
        afterEnsure == IF ensured
                         THEN [files EXCEPT ![d].exists = TRUE,
                                            ![d].headers = @ + 1]
                         ELSE files
    IN  IF ~ensured THEN [files |-> files, success |-> FALSE]
        ELSE IF ~appendOk THEN [files |-> afterEnsure, success |-> FALSE]
        ELSE [files |-> [afterEnsure EXCEPT ![d].rows = Append(@, data)],
              success |-> TRUE]

\* ensureFileWithHeaders + the append of writeDataToSD on the files of the
\* card.  createOk: SD.open(filename, FILE_WRITE) succeeds; appendOk:
\* SD.open(filename, FILE_APPEND) succeeds.  The row written for a record is
\* the record itself.
writeDataToSD(files, data, createOk, appendOk) ==
    LET d == DayOf(data)
        exists == files[d].exists
        ensured == exists \/ createOk
        afterEnsure == IF ~exists /\ createOk
                         THEN [files EXCEPT ![d] = [exists |-> TRUE,
                                                    headers |-> 1,
                                                    rows |-> <<>>]]
                         ELSE files
    IN  IF ~ensured THEN [files |-> files, success |-> FALSE]
        ELSE IF ~appendOk THEN [files |-> afterEnsure, success |-> FALSE]
        ELSE [files |-> [afterEnsure EXCEPT ![d].rows = Append(@, data)],
              success |-> TRUE]

\* Mutants of GiveAfterWrite: the mutex is given back only after a write
\* that succeeded; the mutex is not given back at all.
GiveAfterWrite_onlyOnSuccess(success) == IF success THEN "free" ELSE "logging"

GiveAfterWrite_never(success) == "logging"

\* xSemaphoreGive(sdCardMutex) right after writeDataToSD returns, whatever
\* it returned.
GiveAfterWrite(success) == "free"

\* The start of the task: the first mount, before the loop.
LogInit(mounted) ==
    /\ logPc = "init"
    /\ sdCardInitialized' = initializeSDCard(mounted)
    /\ systemStatus' = [systemStatus EXCEPT !.sd_card_ok = initializeSDCard(mounted)]
    /\ WritesStatus("loggingTask",
                    {"sd_card_ok"})
    /\ logPc' = "recv"
    /\ UNCHANGED <<tsVars, csvWritten, logData, successfulWrites, failedWrites, sdCardMutex,
                   sdFiles, logReceived, sensVars, aggVars, aggregatedDataQueue, upVars>>

\* xQueueReceive(aggregatedDataQueue, &data, portMAX_DELAY) returns a record.
LogReceive ==
    /\ logPc = "recv"
    /\ aggregatedDataQueue # <<>>
    /\ logData' = Head(aggregatedDataQueue)
    /\ aggregatedDataQueue' = Tail(aggregatedDataQueue)
    /\ logReceived' = Append(logReceived, Head(aggregatedDataQueue))
    /\ logPc' = IF sdCardInitialized THEN "take" ELSE "remount"
    /\ UNCHANGED <<tsVars, csvWritten, sdCardInitialized, successfulWrites, failedWrites,
                   sdCardMutex, sdFiles, sensVars, aggVars, upVars, systemStatus,
                   statusWriters>>

\* Mutant of LogRemount: after a failed remount the task goes on to the
\* mutex and the write with the record.
LogRemount_writesAnyway(mounted) ==
    /\ logPc = "remount"
    /\ sdCardInitialized' = initializeSDCard(mounted)
    /\ systemStatus' = [systemStatus EXCEPT
                          !.sd_card_ok = initializeSDCard(mounted)]
    /\ WritesStatus("loggingTask",
                    {"sd_card_ok"})
    /\ logPc' = "take"
    /\ UNCHANGED <<tsVars, csvWritten, failedWrites, logData, successfulWrites,
                   sdCardMutex, sdFiles, logReceived,
                   sensVars, aggVars, aggregatedDataQueue, upVars>>

\* The card is marked unavailable: one attempt to reinitialize it; when that
\* fails the record is given up (continue).
LogRemount(mounted) ==
    /\ logPc = "remount"
    /\ sdCardInitialized' = initializeSDCard(mounted)
    /\ IF initializeSDCard(mounted)
         THEN /\ systemStatus' = [systemStatus EXCEPT !.sd_card_ok = TRUE]
              /\ WritesStatus("loggingTask",
                              {"sd_card_ok"})
              /\ logPc' = "take"
              /\ UNCHANGED <<failedWrites, logData>>
         ELSE /\ systemStatus' = [systemStatus EXCEPT
                                    !.sd_card_ok = FALSE,
                                    !.sd_write_errors = @ + 1]
              /\ WritesStatus("loggingTask",
                              {"sd_card_ok", "sd_write_errors"})
              /\ failedWrites' = failedWrites + 1
              /\ logData' = NoRecord
              /\ logPc' = "recv"
    /\ UNCHANGED <<tsVars, csvWritten, successfulWrites, sdCardMutex, sdFiles, logReceived,
                   sensVars, aggVars, aggregatedDataQueue, upVars>>

\* xSemaphoreTake(sdCardMutex, 5000 ms) returns pdTRUE.
LogTake ==
    /\ logPc = "take"
    /\ sdCardMutex = "free"
    /\ sdCardMutex' = "logging"
    /\ logPc' = "write"
    /\ UNCHANGED <<tsVars, csvWritten, logData, sdCardInitialized, successfulWrites, failedWrites,
                   sdFiles, logReceived, sensVars, aggVars, aggregatedDataQueue, upVars,
                   systemStatus, statusWriters>>

\* Mutant of LogTakeTimeout: the timeout is counted in failedWrites only,
\* systemStatus.sd_write_errors is left alone.
LogTakeTimeout_noCount ==
    /\ logPc = "take"
    /\ sdCardMutex # "free"
    /\ failedWrites' = failedWrites + 1
    /\ logData' = NoRecord
    /\ logPc' = "recv"
    /\ UNCHANGED <<tsVars, csvWritten, sdCardInitialized, successfulWrites, sdCardMutex, sdFiles,
                   logReceived, sensVars, aggVars, aggregatedDataQueue, upVars,
                   systemStatus, statusWriters>>

\* Mutant of LogTakeTimeout: xSemaphoreTake waits with portMAX_DELAY, so that
\* the call never returns while the mutex is taken.
LogTakeTimeout_portMaxDelay ==
    /\ logPc = "take"
    /\ FALSE
    /\ UNCHANGED vars

\* xSemaphoreTake returns pdFALSE: the mutex stayed taken for 5 s.
LogTakeTimeout ==
    /\ logPc = "take"
    /\ sdCardMutex # "free"
    /\ failedWrites' = failedWrites + 1
    /\ systemStatus' = [systemStatus EXCEPT !.sd_write_errors = @ + 1]
    /\ WritesStatus("loggingTask",
                    {"sd_write_errors"})
    /\ logData' = NoRecord
    /\ logPc' = "recv"
    /\ UNCHANGED <<tsVars, csvWritten, sdCardInitialized, successfulWrites, sdCardMutex, sdFiles,
                   logReceived, sensVars, aggVars, aggregatedDataQueue, upVars>>

\* writeDataToSD(data), xSemaphoreGive, and the statistics update.
LogWrite(createOk, appendOk) ==
    LET r == writeDataToSD(sdFiles, logData, createOk, appendOk) IN
    /\ logPc = "write"
    /\ sdFiles' = r.files
    /\ sdCardMutex' = GiveAfterWrite(r.success)
    /\ IF r.success
         THEN /\ successfulWrites' = successfulWrites + 1
              /\ UNCHANGED <<failedWrites, sdCardInitialized, systemStatus,
                   statusWriters>>
         ELSE /\ failedWrites' = failedWrites + 1
              /\ sdCardInitialized' = FALSE
              /\ systemStatus' = [systemStatus EXCEPT
                                    !.sd_write_errors = @ + 1,
                                    !.sd_card_ok = FALSE]
              /\ WritesStatus("loggingTask",
                              {"sd_write_errors", "sd_card_ok"})
              /\ UNCHANGED successfulWrites
    /\ logData' = NoRecord
    /\ logPc' = "recv"
    /\ UNCHANGED <<tsVars, csvWritten, logReceived, sensVars, aggVars, aggregatedDataQueue, upVars>>

\* The printing part of writeDataToSD applied to a record.  Only SpecCsv has
\* it: in the other specifications a row is identified by its record.
WriteRow(data) ==
    /\ csvWritten' = [data |-> data, text |-> FormatRow(data)]
    /\ UNCHANGED <<tsVars, logPc, logData, sdCardInitialized, successfulWrites,
                   failedWrites, sdCardMutex, sdFiles, logReceived, sensVars,
                   aggVars, aggregatedDataQueue, upVars, systemStatus,
                   statusWriters>>

\* -------------------------------------------------------- cloudUploadTask
\* Mutant of disconnectWiFi: the radio stays in station mode.
disconnectWiFi_keepsRadio == <<FALSE, "WIFI_STA", FALSE>>

\* disconnectWiFi(): WiFi.disconnect(true), WiFi.mode(WIFI_OFF),
\* wifiConnected = false.  The result is <<wifiLink, wifiMode, wifiConnected>>.
disconnectWiFi == <<FALSE, "WIFI_OFF", FALSE>>

\* The start of an upload cycle: uploadCycles++, connectToWiFi() (connected:
\* the link came up within WIFI_TIMEOUT_MS), the status flag; on failure the
\* task sleeps until the next cycle.
UpCycle(connected) ==
    /\ upPc \in {"start", "sleep"}
    /\ uploadCycles < MaxCycles
    /\ uploadCycles' = uploadCycles + 1
    /\ wifiMode' = "WIFI_STA"
    /\ wifiLink' = connected
    /\ wifiConnected' = connected
    /\ systemStatus' = [systemStatus EXCEPT !.wifi_connected = connected]
    /\ WritesStatus("cloudUploadTask",
                    {"wifi_connected"})
    /\ upPc' = IF connected THEN "mqtt" ELSE "sleep"
    /\ upData' = NoRecord
    /\ itemsUploaded' = 0
    /\ cycRecv' = <<>>
    /\ cycFail' = <<>>
    /\ UNCHANGED <<tsVars, successfulUploads, failedUploads, mqttConnected, mqttLink,
                   published, upReceived, lostOnRequeue, sensVars, aggVars,
                   aggregatedDataQueue, logVars>>

\* Mutant of UpMqtt: after a failed connectToMQTT() the task goes on to the
\* drain loop instead of the sleep.
UpMqtt_drainsOnFailure(connected) ==
    /\ upPc = "mqtt"
    /\ mqttLink' = connected
    /\ mqttConnected' = connected
    /\ IF connected
         THEN /\ systemStatus' = [systemStatus EXCEPT !.mqtt_connected = TRUE]
              /\ WritesStatus("cloudUploadTask",
                              {"mqtt_connected"})
              /\ UNCHANGED <<wifiLink, wifiMode, wifiConnected, failedUploads>>
         ELSE /\ wifiLink' = disconnectWiFi[1]
              /\ wifiMode' = disconnectWiFi[2]
              /\ wifiConnected' = disconnectWiFi[3]
              /\ failedUploads' = failedUploads + 1
              /\ systemStatus' = [systemStatus EXCEPT
                                    !.mqtt_connected = FALSE,
                                    !.mqtt_errors = @ + 1]
              /\ WritesStatus("cloudUploadTask",
                              {"mqtt_connected", "mqtt_errors"})
    /\ upPc' = "drain"
    /\ UNCHANGED <<tsVars, upData, uploadCycles, successfulUploads,
                   itemsUploaded, published, upReceived, cycRecv, cycFail,
                   lostOnRequeue, sensVars, aggVars, aggregatedDataQueue,
                   logVars>>

\* connectToMQTT() (connected: the broker accepted the connection); on
\* failure disconnectWiFi(), the error counters, and the sleep.
UpMqtt(connected) ==
    /\ upPc = "mqtt"
    /\ mqttLink' = connected
    /\ mqttConnected' = connected
    /\ IF connected
         THEN /\ systemStatus' = [systemStatus EXCEPT !.mqtt_connected = TRUE]
              /\ WritesStatus("cloudUploadTask",
                              {"mqtt_connected"})
              /\ upPc' = "drain"
              /\ UNCHANGED <<wifiLink, wifiMode, wifiConnected, failedUploads>>
         ELSE /\ wifiLink' = disconnectWiFi[1]
              /\ wifiMode' = disconnectWiFi[2]
              /\ wifiConnected' = disconnectWiFi[3]
              /\ failedUploads' = failedUploads + 1
              /\ systemStatus' = [systemStatus EXCEPT
                                    !.mqtt_connected = FALSE,
                                    !.mqtt_errors = @ + 1]
              /\ WritesStatus("cloudUploadTask",
                              {"mqtt_connected", "mqtt_errors"})
              /\ upPc' = "sleep"
    /\ UNCHANGED <<tsVars, upData, uploadCycles, successfulUploads, itemsUploaded,
                   published, upReceived, cycRecv, cycFail, lostOnRequeue,
                   sensVars, aggVars, aggregatedDataQueue, logVars>>

\* xQueueReceive(aggregatedDataQueue, &data, 0) returns a record.
UpReceive ==
    /\ upPc = "drain"
    /\ aggregatedDataQueue # <<>>
    /\ upData' = Head(aggregatedDataQueue)
    /\ aggregatedDataQueue' = Tail(aggregatedDataQueue)
    /\ upReceived' = Append(upReceived, Head(aggregatedDataQueue))
    /\ cycRecv' = Append(cycRecv, Head(aggregatedDataQueue))
    /\ upPc' = "publish"
    /\ UNCHANGED <<tsVars, uploadCycles, successfulUploads, failedUploads,
                   itemsUploaded, wifiConnected, mqttConnected, wifiMode,
                   wifiLink, mqttLink, published, cycFail, lostOnRequeue,
                   sensVars, aggVars, logVars, systemStatus,
                   statusWriters>>

\* xQueueReceive finds the queue empty: the drain loop ends.
UpDrainEmpty ==
    /\ upPc = "drain"
    /\ aggregatedDataQueue = <<>>
    /\ upPc' = "teardown"
    /\ UNCHANGED <<tsVars, upData, uploadCycles, successfulUploads, failedUploads,
                   itemsUploaded, wifiConnected, mqttConnected, wifiMode,
                   wifiLink, mqttLink, published, upReceived, cycRecv,
                   cycFail, lostOnRequeue, sensVars, aggVars, aggregatedDataQueue,
                   logVars, systemStatus, statusWriters>>

\* Mutant of UpPublishOk: the published record is sent to the front of the
\* queue as a failed one is.
UpPublishOk_requeues ==
    /\ upPc = "publish"
    /\ itemsUploaded' = itemsUploaded + 1
    /\ successfulUploads' = successfulUploads + 1
    /\ published' = Append(published, upData)
    /\ aggregatedDataQueue' = QueueSendToFront(aggregatedDataQueue, upData)
    /\ upPc' = "teardown"
    /\ UNCHANGED <<tsVars, upData, uploadCycles, failedUploads, wifiConnected,
                   mqttConnected, wifiMode, wifiLink, mqttLink, upReceived,
                   cycRecv, cycFail, lostOnRequeue, sensVars, aggVars,
                   logVars, systemStatus, statusWriters>>

\* publishDataToMQTT(data) returns true; mqttClient.loop(), delay(100), and
\* back to the receive.
UpPublishOk ==
    /\ upPc = "publish"
    /\ itemsUploaded' = itemsUploaded + 1
    /\ successfulUploads' = successfulUploads + 1
    /\ published' = Append(published, upData)
    /\ upPc' = "drain"
    /\ UNCHANGED <<tsVars, upData, uploadCycles, failedUploads, wifiConnected,
                   mqttConnected, wifiMode, wifiLink, mqttLink, upReceived,
                   cycRecv, cycFail, lostOnRequeue, sensVars, aggVars,
                   aggregatedDataQueue, logVars, systemStatus,
                   statusWriters>>

\* publishDataToMQTT(data) returns false: the error counters, the record
\* sent to the front of the queue (result not looked at), break.
UpPublishFail ==
    /\ upPc = "publish"
    /\ failedUploads' = failedUploads + 1
    /\ systemStatus' = [systemStatus EXCEPT !.mqtt_errors = @ + 1]
    /\ WritesStatus("cloudUploadTask",
                    {"mqtt_errors"})
    /\ aggregatedDataQueue' = QueueSendToFront(aggregatedDataQueue, upData)
    /\ cycFail' = Append(cycFail, upData)
    /\ lostOnRequeue' = IF QueueFull(aggregatedDataQueue)
                          THEN lostOnRequeue \cup {upData}
                          ELSE lostOnRequeue
    /\ upPc' = "teardown"
    /\ UNCHANGED <<tsVars, upData, uploadCycles, successfulUploads, itemsUploaded,
                   wifiConnected, mqttConnected, wifiMode, wifiLink, mqttLink,
                   published, upReceived, cycRecv, sensVars, aggVars, logVars>>

\* mqttClient.disconnect(), the flags, disconnectWiFi(), and the sleep until
\* the next upload window.
UpTeardown ==
    /\ upPc = "teardown"
    /\ mqttLink' = FALSE
    /\ mqttConnected' = FALSE
    /\ systemStatus' = [systemStatus EXCEPT !.mqtt_connected = FALSE]
    /\ WritesStatus("cloudUploadTask",
                    {"mqtt_connected"})
    /\ wifiLink' = disconnectWiFi[1]
    /\ wifiMode' = disconnectWiFi[2]
    /\ wifiConnected' = disconnectWiFi[3]
    /\ upPc' = "sleep"
    /\ UNCHANGED <<tsVars, upData, uploadCycles, successfulUploads, failedUploads,
                   itemsUploaded, published, upReceived, cycRecv, cycFail,
                   lostOnRequeue, sensVars, aggVars, aggregatedDataQueue, logVars>>

\* ------------------------------------------------------------ timeSyncTask
\* The variables of cloudUploadTask other than the state of the WiFi radio,
\* which timeSyncTask drives too.
upOwnVars == <<upPc, upData, uploadCycles, successfulUploads, failedUploads,
               itemsUploaded, wifiConnected, mqttConnected, mqttLink,
               published, upReceived, cycRecv, cycFail, lostOnRequeue>>

maxAttempts == 3

maxRetries == 20

\* The tolerance, in seconds, of the read-back of the clock.
SyncTolerance == 2

\* The times the system clock may hold once NTP has set it, and the times the
\* DS1308 may hold after rtc.adjust (the time written when the write went
\* well).
NtpTimes == 0..(MaxTime + 1)

\* The numbers of getLocalTime() calls that fail before one succeeds:
\* none, one fewer than maxRetries, maxRetries, and all maxRetries + 1 calls.
FailedPolls == {0, maxRetries - 1, maxRetries, maxRetries + 1}

abs(x) == IF x > 0 THEN x ELSE -x

\* A getLocalTime() call of syncTimeWithNTP() succeeded: the loop calls it
\* until it succeeds, maxRetries + 1 times at most (the call is the first
\* operand of the loop condition, evaluated also when retry has reached
\* maxRetries).
PollSucceeded(failedPolls) == failedPolls <= maxRetries

\* syncTimeWithNTP(): retry counts the failed polls, at most maxRetries.
syncTimeWithNTP(failedPolls) ==
    LET retry == IF failedPolls < maxRetries THEN failedPolls ELSE maxRetries
    IN  ~(retry >= maxRetries)

\* Mutant of ReadBackWithin: any read-back passes.
ReadBackWithin_anything(rtcTime, now) == TRUE

\* The verification of updateRTCFromNTP: timeDiff = abs(rtcTime - now) is
\* within the tolerance.
ReadBackWithin(rtcTime, now) == ~(abs(rtcTime - now) > SyncTolerance)

\* updateRTCFromNTP().  sensorCreated: getRTCSensor() is not nullptr; found:
\* rtcFound; clock: the time the DS1308 holds; now: the system time; stored:
\* the time the DS1308 holds after rtc.adjust(now), which getUnixTime() reads
\* back.  The result: the return value, the time the DS1308 holds afterwards,
\* the step that failed, whether rtc.adjust was called, and the new values of
\* lastSyncTime and initialSyncComplete.
updateRTCFromNTP(sensorCreated, found, clock, now, stored, last, complete) ==
    IF ~sensorCreated
      THEN [ok |-> FALSE, rtc |-> clock, failure |-> "nortc", wrote |-> FALSE,
            lastSyncTime |-> last, initialSyncComplete |-> complete]
    ELSE IF now < Year2020
      THEN [ok |-> FALSE, rtc |-> clock, failure |-> "threshold",
            wrote |-> FALSE,
            lastSyncTime |-> last, initialSyncComplete |-> complete]
    ELSE IF ~found
      THEN [ok |-> FALSE, rtc |-> clock, failure |-> "settime",
            wrote |-> FALSE,
            lastSyncTime |-> last, initialSyncComplete |-> complete]
    ELSE IF ~ReadBackWithin(stored, now)
      THEN [ok |-> FALSE, rtc |-> stored, failure |-> "readback",
            wrote |-> TRUE,
            lastSyncTime |-> last, initialSyncComplete |-> complete]
    ELSE [ok |-> TRUE, rtc |-> stored, failure |-> "none", wrote |-> TRUE,
          lastSyncTime |-> now, initialSyncComplete |-> TRUE]

\* Mutant of StartupLoopCondition: one attempt more.
StartupLoopCondition_oneMore(complete, n) == ~complete /\ n <= maxAttempts

\* The condition of the startup loop of timeSyncTask.
StartupLoopCondition(complete, n) == ~complete /\ n < maxAttempts

\* The entry of performTimeSync(), called from the loop phase.
BeginSync(phase) ==
    /\ tsPc' = "connect"
    /\ tsPhase' = phase
    /\ tsSuccess' = FALSE
    /\ tsFailure' = "none"
    /\ tsWrote' = FALSE
    /\ tsPolled' = FALSE
    /\ tsNow' = 0

\* The head of the startup loop: one more attempt, or on to the periodic
\* loop.
StartupLoopHead ==
    IF StartupLoopCondition(initialSyncComplete, attempts)
      THEN /\ attempts' = attempts + 1
           /\ BeginSync("startup")
      ELSE /\ tsPc' = "periodic"
           /\ UNCHANGED <<attempts, tsPhase, tsSuccess, tsFailure, tsWrote, tsPolled,
                           tsNow>>

\* delay(5000) at the start of the task is over.
TsBoot ==
    /\ tsPc = "boot"
    /\ StartupLoopHead
    /\ UNCHANGED <<syncCycles, initialSyncComplete, lastSyncTime, sensVars,
                   aggVars, aggregatedDataQueue, logVars, upVars,
                   systemStatus, statusWriters>>

\* vTaskDelay(30000) after a failed startup attempt is over.
TsRetryDelay ==
    /\ tsPc = "retry"
    /\ StartupLoopHead
    /\ UNCHANGED <<syncCycles, initialSyncComplete, lastSyncTime, sensVars,
                   aggVars, aggregatedDataQueue, logVars, upVars,
                   systemStatus, statusWriters>>

\* vTaskDelayUntil of the periodic loop is over: syncCycles++ and the sync.
TsPeriodic ==
    /\ tsPc = "periodic"
    /\ syncCycles < MaxSyncCycles
    /\ syncCycles' = syncCycles + 1
    /\ BeginSync("periodic")
    /\ UNCHANGED <<attempts, initialSyncComplete, lastSyncTime, sensVars,
                   aggVars, aggregatedDataQueue, logVars, upVars,
                   systemStatus, statusWriters>>

\* connectForTimeSync() (connected: the link came up within
\* WIFI_TIMEOUT_MS).
TsConnect(connected) ==
    /\ tsPc = "connect"
    /\ wifiMode' = "WIFI_STA"
    /\ wifiLink' = connected
    /\ tsPc' = IF connected THEN "ntp" ELSE "cleanup"
    /\ tsFailure' = IF connected THEN "none" ELSE "wifi"
    /\ UNCHANGED <<tsPhase, attempts, syncCycles, tsSuccess,
                   initialSyncComplete, lastSyncTime, tsWrote, tsPolled, tsNow,
                   sensVars,
                   aggVars, aggregatedDataQueue, logVars, upOwnVars,
                   systemStatus, statusWriters>>

\* syncTimeWithNTP().
TsNtp(failedPolls) ==
    /\ tsPc = "ntp"
    /\ tsPc' = IF syncTimeWithNTP(failedPolls) THEN "update" ELSE "cleanup"
    /\ tsFailure' = IF syncTimeWithNTP(failedPolls) THEN "none" ELSE "ntp"
    /\ tsPolled' = PollSucceeded(failedPolls)
    /\ UNCHANGED <<tsPhase, attempts, syncCycles, tsSuccess,
                   initialSyncComplete, lastSyncTime, tsWrote, tsNow,
                   sensVars,
                   aggVars, aggregatedDataQueue, logVars, upVars,
                   systemStatus, statusWriters>>

\* updateRTCFromNTP(), and success = true when it returned true.
TsUpdateRTC(now, stored) ==
    LET r == updateRTCFromNTP(sensPc = "run", rtcFound, rtc, now, stored,
                              lastSyncTime, initialSyncComplete)
    IN  /\ tsPc = "update"
        /\ rtc' = r.rtc
        /\ lastSyncTime' = r.lastSyncTime
        /\ initialSyncComplete' = r.initialSyncComplete
        /\ tsSuccess' = r.ok
        /\ tsFailure' = r.failure
        /\ tsWrote' = r.wrote
        /\ tsNow' = IF sensPc = "run" THEN now ELSE tsNow
        /\ tsPc' = "cleanup"
        /\ UNCHANGED <<tsPhase, attempts, syncCycles, tsPolled, sensPc, rtcFound,
                       activeSensors, rawReadingQueue, rawDropped, ticks, aggVars,
                       aggregatedDataQueue, logVars, upVars, systemStatus,
                   statusWriters>>

\* updateRTCFromNTP() in the two accesses it makes to the clock, between
\* which the sensor task, of higher priority, can run.  The first: the
\* checks and rtc->setTime(now), after which the DS1308 holds stored.
TsSetTime(now, stored) ==
    LET created == sensPc = "run"
        written == created /\ ~(now < Year2020) /\ rtcFound
    IN  /\ tsPc = "update"
        /\ rtc' = IF written THEN stored ELSE rtc
        /\ tsWrote' = written
        /\ tsNow' = IF created THEN now ELSE tsNow
        /\ tsFailure' = IF ~created THEN "nortc"
                        ELSE IF now < Year2020 THEN "threshold"
                        ELSE IF ~rtcFound THEN "settime"
                        ELSE "none"
        /\ tsPc' = IF written THEN "readback" ELSE "cleanup"
        /\ UNCHANGED <<tsPhase, attempts, syncCycles, tsSuccess, tsPolled,
                       initialSyncComplete, lastSyncTime, sensPc, rtcFound,
                       activeSensors, rawReadingQueue, rawDropped, ticks,
                       aggVars, aggregatedDataQueue, logVars, upVars,
                       systemStatus, statusWriters>>

\* The second: rtc->getUnixTime() reads the clock back, and the verification
\* against the time written.
TsReadBack ==
    LET verified == ReadBackWithin(rtc, tsNow) IN
    /\ tsPc = "readback"
    /\ tsSuccess' = verified
    /\ tsFailure' = IF verified THEN "none" ELSE "readback"
    /\ lastSyncTime' = IF verified THEN tsNow ELSE lastSyncTime
    /\ initialSyncComplete' = (verified \/ initialSyncComplete)
    /\ tsPc' = "cleanup"
    /\ UNCHANGED <<tsPhase, attempts, syncCycles, tsWrote, tsPolled, tsNow,
                   sensVars,
                   aggVars, aggregatedDataQueue, logVars, upVars,
                   systemStatus, statusWriters>>

\* Mutant of performTimeSync_cleanup: the radio stays in station mode.
performTimeSync_cleanup_keepsRadio == <<FALSE, "WIFI_STA", FALSE>>

\* The cleanup label of performTimeSync(): WiFi.disconnect(true),
\* WiFi.mode(WIFI_OFF), systemStatus.wifi_connected = false.  The result is
\* <<wifiLink, wifiMode, systemStatus.wifi_connected>>.
performTimeSync_cleanup == <<FALSE, "WIFI_OFF", FALSE>>

\* The cleanup of performTimeSync() and its return to the loop that called
\* it: the periodic loop sleeps; the startup loop breaks on success, delays
\* 30 s when attempts are left, and else comes to its head again.
TsCleanup ==
    /\ tsPc = "cleanup"
    /\ wifiLink' = performTimeSync_cleanup[1]
    /\ wifiMode' = performTimeSync_cleanup[2]
    /\ systemStatus' = [systemStatus EXCEPT
                          !.wifi_connected = performTimeSync_cleanup[3]]
    /\ WritesStatus("timeSyncTask",
                    {"wifi_connected"})
    /\ IF tsPhase = "periodic" \/ tsSuccess
         THEN /\ tsPc' = "periodic"
              /\ UNCHANGED <<attempts, tsPhase, tsSuccess, tsFailure, tsWrote, tsPolled,
                           tsNow>>
         ELSE IF attempts < maxAttempts
           THEN /\ tsPc' = "retry"
                /\ UNCHANGED <<attempts, tsPhase, tsSuccess, tsFailure,
                               tsWrote, tsPolled, tsNow>>
           ELSE StartupLoopHead
    /\ UNCHANGED <<syncCycles, initialSyncComplete, lastSyncTime, sensVars,
                   aggVars, aggregatedDataQueue, logVars, upOwnVars>>

\* ---------------------------------------------------------- specification
Next ==
    \/ \E collected \in BOOLEAN : AggTick(collected)
    \/ AggSend
    \/ AggSendTimeout
    \/ \E mounted \in BOOLEAN : LogInit(mounted)
    \/ LogReceive
    \/ \E mounted \in BOOLEAN : LogRemount(mounted)
    \/ LogTake
    \/ \E createOk, appendOk \in BOOLEAN : LogWrite(createOk, appendOk)
    \/ \E connected \in BOOLEAN : UpCycle(connected)
    \/ \E connected \in BOOLEAN : UpMqtt(connected)
    \/ UpReceive
    \/ UpDrainEmpty
    \/ UpPublishOk
    \/ UpPublishFail
    \/ UpTeardown

Spec == Init /\ [][Next]_vars


\* The front of the pipeline: the clock, sensorReadingTask and aggregationTask
\* with its drain of the raw queue, the stats queue not being consumed.
NextAcquisition ==
    \/ RtcSecond
    \/ \E now \in 0..MaxTime : TimeSyncSetRTC(now)
    \/ \E rtcBegin, dsBegin, shtBegin \in BOOLEAN :
          SensorInit(rtcBegin, dsBegin, shtBegin)
    \/ \E tempC \in TempCs, event \in ShtEvents, rawValue \in RawADCs :
          SensorTick(tempC, event, rawValue)
    \/ AggDrain
    \/ AggSend
    \/ AggSendTimeout

SpecAcquisition == Init /\ [][NextAcquisition]_vars

\* A holder of sdCardMutex outside the tasks above (the sketch that creates
\* the mutex is not part of the sources): it takes the free mutex and gives
\* it back.  Only SpecContended has it.
OtherTake ==
    /\ sdCardMutex = "free"
    /\ sdCardMutex' = "other"
    /\ UNCHANGED <<tsVars, csvWritten, logPc, logData, sdCardInitialized, successfulWrites,
                   failedWrites, sdFiles, logReceived, sensVars, aggVars,
                   aggregatedDataQueue, upVars, systemStatus,
                   statusWriters>>

OtherGive ==
    /\ sdCardMutex = "other"
    /\ sdCardMutex' = "free"
    /\ UNCHANGED <<tsVars, csvWritten, logPc, logData, sdCardInitialized, successfulWrites,
                   failedWrites, sdFiles, logReceived, sensVars, aggVars,
                   aggregatedDataQueue, upVars, systemStatus,
                   statusWriters>>

\* The pipeline with sdCardMutex contended: xSemaphoreTake may time out.
NextContended ==
    \/ Next
    \/ LogTakeTimeout
    \/ OtherTake
    \/ OtherGive

SpecContended == Init /\ [][NextContended]_vars

\* timeSyncTask with the clock it sets and the creation of the clock's
\* driver by initializeSensors.
NextTimeSync ==
    \/ RtcSecond
    \/ \E rtcBegin, dsBegin, shtBegin \in BOOLEAN :
          SensorInit(rtcBegin, dsBegin, shtBegin)
    \/ TsBoot
    \/ TsRetryDelay
    \/ TsPeriodic
    \/ \E connected \in BOOLEAN : TsConnect(connected)
    \/ \E failedPolls \in FailedPolls : TsNtp(failedPolls)
    \/ \E now, stored \in NtpTimes : TsUpdateRTC(now, stored)
    \/ TsCleanup

SpecTimeSync == Init /\ [][NextTimeSync]_vars

\* A record delivered to the stats queue, whether or not it was delivered
\* before (a producer that sends a record again).  Only SpecRedelivery has
\* it.
Redeliver(r) ==
    /\ Len(logReceived) + Len(aggregatedDataQueue) < MaxDeliveries
    /\ ~QueueFull(aggregatedDataQueue)
    /\ aggregatedDataQueue' = QueueSendToBack(aggregatedDataQueue, r)
    /\ enqueued' = enqueued \cup {r}
    /\ UNCHANGED <<tsVars, aggPc, aggData, emitted, dropped, winVars, sensVars,
                   logVars, upVars, systemStatus, statusWriters>>

\* loggingTask alone on the stats queue, fed any sequence of records.
NextRedelivery ==
    \/ \E r \in Ids : Redeliver(r)
    \/ \E mounted \in BOOLEAN : LogInit(mounted)
    \/ LogReceive
    \/ \E mounted \in BOOLEAN : LogRemount(mounted)
    \/ LogTake
    \/ \E createOk, appendOk \in BOOLEAN : LogWrite(createOk, appendOk)

SpecRedelivery == Init /\ [][NextRedelivery]_vars

\* The two tasks that drive the WiFi radio, cloudUploadTask and timeSyncTask,
\* with aggregationTask feeding the stats queue.  No lock guards the radio:
\* the tasks interleave at their blocking calls (delay(500) in the connect
\* loops, delay(100) between publishes, the network calls).  The driver of
\* the clock is not created here, so that updateRTCFromNTP returns at its
\* first check.
NextRadio ==
    \/ \E collected \in BOOLEAN : AggTick(collected)
    \/ AggSend
    \/ AggSendTimeout
    \/ \E connected \in BOOLEAN : UpCycle(connected)
    \/ \E connected \in BOOLEAN : UpMqtt(connected)
    \/ UpReceive
    \/ UpDrainEmpty
    \/ UpPublishOk
    \/ UpPublishFail
    \/ UpTeardown
    \/ TsBoot
    \/ TsRetryDelay
    \/ TsPeriodic
    \/ \E connected \in BOOLEAN : TsConnect(connected)
    \/ \E failedPolls \in FailedPolls : TsNtp(failedPolls)
    \/ \E now, stored \in NtpTimes : TsUpdateRTC(now, stored)
    \/ TsCleanup

SpecRadio == Init /\ [][NextRadio]_vars

\* writeDataToSD printing the row of any record of CsvInputs.
NextCsv == \E data \in CsvInputs : WriteRow(data)

SpecCsv == Init /\ [][NextCsv]_vars

\* The two tasks that access the DS1308, sensorReadingTask (priority 3) and
\* timeSyncTask (priority 0), with the clock.  No lock guards the clock: the
\* sensor task runs whenever its vTaskDelayUntil expires, whatever
\* timeSyncTask is doing.  The environmental sensors answer the same in
\* every tick.
NextClockAccess ==
    \/ RtcSecond
    \/ \E rtcBegin \in BOOLEAN : SensorInit(rtcBegin, TRUE, TRUE)
    \/ \E event \in {e \in ShtEvents : e.ok /\ e.relative_humidity <= 100},
          rawValue \in RawADCs : SensorTick(20, event, rawValue)
    \/ TsBoot
    \/ TsRetryDelay
    \/ TsPeriodic
    \/ \E connected \in BOOLEAN : TsConnect(connected)
    \/ \E failedPolls \in FailedPolls : TsNtp(failedPolls)
    \/ \E now, stored \in NtpTimes : TsSetTime(now, stored)
    \/ TsReadBack
    \/ TsCleanup

SpecClockAccess == Init /\ [][NextClockAccess]_vars

\* The tasks under the scheduler.  The tasks are coordinated only through
\* the two queues and the mutex: timeSyncTask and the start of the sensor
\* task wait on none of them, and nothing waits on the radio or the clock
\* they drive.  A behaviour of SpecLive therefore runs one of the two sides,
\* the other not having started: the clock side (the DS1308, the start of
\* the sensor task, timeSyncTask) or the pipeline (aggregationTask,
\* loggingTask, cloudUploadTask and the other holder of the mutex).
PipelineNotStarted ==
    /\ aggPc = "tick"
    /\ emitted = 0
    /\ lastTick = "none"
    /\ logPc = "init"
    /\ upPc = "start"
    /\ sdCardMutex = "free"

ClockSideNotStarted ==
    /\ rtc = RtcPowerLoss
    /\ sensPc = "init"
    /\ tsPc = "boot"

\* A step of each task.
SensorTaskStep ==
    /\ PipelineNotStarted
    /\ \E rtcBegin, dsBegin, shtBegin \in BOOLEAN :
          SensorInit(rtcBegin, dsBegin, shtBegin)

TimeSyncTaskStep ==
    /\ PipelineNotStarted
    /\ \/ TsBoot
       \/ TsRetryDelay
       \/ TsPeriodic
       \/ \E connected \in BOOLEAN : TsConnect(connected)
       \/ \E failedPolls \in FailedPolls : TsNtp(failedPolls)
       \/ \E now, stored \in NtpTimes : TsUpdateRTC(now, stored)
       \/ TsCleanup

AggregationTaskStep ==
    /\ ClockSideNotStarted
    /\ \/ \E collected \in BOOLEAN : AggTick(collected)
       \/ AggSend
       \/ AggSendTimeout

LoggingTaskStep ==
    /\ ClockSideNotStarted
    /\ \/ \E mounted \in BOOLEAN : LogInit(mounted)
       \/ LogReceive
       \/ \E mounted \in BOOLEAN : LogRemount(mounted)
       \/ LogTake
       \/ LogTakeTimeout
       \/ \E createOk, appendOk \in BOOLEAN : LogWrite(createOk, appendOk)

CloudUploadTaskStep ==
    /\ ClockSideNotStarted
    /\ \/ \E connected \in BOOLEAN : UpCycle(connected)
       \/ \E connected \in BOOLEAN : UpMqtt(connected)
       \/ UpReceive
       \/ UpDrainEmpty
       \/ UpPublishOk
       \/ UpPublishFail
       \/ UpTeardown

NextLive ==
    \/ PipelineNotStarted /\ RtcSecond
    \/ SensorTaskStep
    \/ TimeSyncTaskStep
    \/ AggregationTaskStep
    \/ LoggingTaskStep
    \/ CloudUploadTaskStep
    \/ ClockSideNotStarted /\ OtherTake
    \/ ClockSideNotStarted /\ OtherGive

\* The scheduler is fair to every task: a task whose next step stays
\* possible takes it (its blocking call returns, its sleep ends).  Nothing
\* is assumed of the other holder of the mutex, which may keep it for ever,
\* nor of the clock.
SpecLive ==
    /\ Init
    /\ [][NextLive]_vars
    /\ WF_vars(SensorTaskStep)
    /\ WF_vars(TimeSyncTaskStep)
    /\ WF_vars(AggregationTaskStep)
    /\ WF_vars(LoggingTaskStep)
    /\ WF_vars(CloudUploadTaskStep)

\* ---------------------------------------------------------------- helpers
Range(s) == {s[i] : i \in DOMAIN s}
Occurrences(s, x) == Cardinality({i \in DOMAIN s : s[i] = x})
NonDecreasing(s) == \A i, j \in DOMAIN s : i < j => s[i] <= s[j]
StrictlyIncreasing(s) == \A i, j \in DOMAIN s : i < j => s[i] < s[j]
\* Rows of record r over all files of the card.
RowCount(files, r) == Occurrences(files[DayOf(r)].rows, r)
RECURSIVE SumRows(_, _)
SumRows(files, days) ==
    IF days = {} THEN 0
    ELSE LET d == CHOOSE x \in days : TRUE
         IN  Len(files[d].rows)
             + SumRows(files, days \ {d})
\* A record that can still reach a consumer: queued, or held by the upload
\* task between its receive and the outcome of the publish.
Pending(r) ==
    \/ r \in Range(aggregatedDataQueue)
    \/ upPc = "publish" /\ upData = r


\* ----------------------------------------------------------------- claims

\* C1: every record accepted into the stats queue is received by the logging
\* task and also by the upload task, each in emission order.  Stated on the
\* records that can no longer reach a consumer: each of them has been
\* received by both, and each consumer's receptions are in emission order.
C1_BothConsumersReceiveEveryRecord ==
    /\ \A r \in enqueued :
         ~Pending(r) => r \in Range(logReceived) /\ r \in Range(upReceived)
    /\ NonDecreasing(logReceived)
    /\ NonDecreasing(upReceived)

\* C2: a record the upload task dequeued and failed to publish is not lost:
\* while the task sleeps after that cycle the record is back in the stats
\* queue (or, at the least, a consumer took it from there), also when the
\* queue was full at the moment of the re-insertion.
C2_FailedRecordNeverLost ==
    (upPc = "sleep" /\ cycFail # <<>>) =>
        \A r \in Range(cycFail) :
            r \in Range(aggregatedDataQueue) \/ r \in Range(logReceived)

\* C3: in the step where the publish of the N-th record of a drain fails,
\* the task has counted N-1 successful uploads, counts one failed upload, and
\* the record is at the front of the stats queue afterwards; from then on the
\* cycle neither dequeues nor publishes.
C3_DrainStopsAtFirstFailure ==
    [][ /\ (upPc = "publish" /\ upPc' = "teardown") =>
             /\ cycFail = <<>>
             /\ itemsUploaded' = Len(cycRecv) - 1
             /\ failedUploads' = failedUploads + 1
             /\ aggregatedDataQueue' # <<>>
             /\ Head(aggregatedDataQueue') = upData
        /\ (cycFail # <<>> /\ cycFail' = cycFail) =>
             /\ cycRecv' = cycRecv
             /\ published' = published
      ]_vars

\* C4: when an upload cycle in which a publish failed ends (teardown done,
\* the task goes to sleep), the record whose publish failed is the front
\* element of the stats queue.
C4_FailedRecordAtFrontAtCycleEnd ==
    [][ (upPc = "teardown" /\ upPc' = "sleep" /\ cycFail # <<>>) =>
            /\ aggregatedDataQueue' # <<>>
            /\ Head(aggregatedDataQueue') = cycFail[1]
      ]_vars

\* C5: records are published in emission order over all cycles: the
\* published sequence is increasing, and a record the upload task is about
\* to publish was emitted before every record still pending in the queue.
C5_PublishedInEmissionOrder ==
    /\ StrictlyIncreasing(published)
    /\ upPc = "publish" => \A r \in Range(aggregatedDataQueue) : upData < r

\* C5 witness: record 1 failed in one cycle, was received again and
\* published in the next, and record 2 was published after it.
C5_Witness ==
    /\ published = <<1, 2>>
    /\ Occurrences(upReceived, 1) = 2

\* C6: a record the logging task receives gives at most one row; every
\* successful write gives exactly one row; the logging task never puts a
\* record it received back into the stats queue.
C6_StorageAtMostOneRow ==
    /\ \A r \in Ids : RowCount(sdFiles, r) <= Occurrences(logReceived, r)
    /\ SumRows(sdFiles, Days) = successfulWrites
    /\ \A r \in Range(logReceived) : r \notin Range(aggregatedDataQueue)

\* C6 witness: two records written, one write failed.
C6_Witness ==
    /\ successfulWrites = 2
    /\ failedWrites = 1
    /\ logPc = "recv"

\* C7 as stated: every write failure (mutex not acquired within 5 s, I/O
\* error) increments sd_write_errors by one and marks storage unavailable.
C7_EveryFailureMarksUnavailable ==
    [][ failedWrites' = failedWrites + 1 =>
            /\ systemStatus'.sd_write_errors = systemStatus.sd_write_errors + 1
            /\ ~sdCardInitialized'
            /\ ~systemStatus'.sd_card_ok
      ]_vars

\* C7 amended: every write failure increments sd_write_errors by one; a
\* failed remount or a failed write leaves storage marked unavailable; a
\* mutex that is not acquired within 5 s leaves sdCardInitialized and
\* sd_card_ok as they were (true).
C7_FailureCountsAndMarksExceptTimeout ==
    [][ failedWrites' = failedWrites + 1 =>
            /\ systemStatus'.sd_write_errors = systemStatus.sd_write_errors + 1
            /\ IF logPc = "take"
                 THEN /\ sdCardInitialized' /\ sdCardInitialized
                      /\ systemStatus'.sd_card_ok /\ systemStatus.sd_card_ok
                 ELSE /\ ~sdCardInitialized'
                      /\ ~systemStatus'.sd_card_ok
      ]_vars

\* C7 witness: the one record received so far failed on the mutex timeout
\* (a failed remount or write would have left sdCardInitialized false).
C7_Witness ==
    /\ logPc = "recv"
    /\ Len(logReceived) = 1
    /\ failedWrites = 1
    /\ systemStatus.sd_write_errors = 1
    /\ sdCardInitialized

\* C8: whenever the logging task operates on the storage device (mount at
\* start, remount, the file operations of the write) it holds sdCardMutex.
C8_DeviceOpsUnderMutex ==
    logPc \in {"init", "remount", "write"} => sdCardMutex = "logging"

\* C9: the logging task holds sdCardMutex exactly while it writes one
\* record: from the successful take to the end of writeDataToSD, released
\* whatever the write returned, never while waiting on the queue.
C9_MutexHeldOnlyForOneWrite ==
    /\ sdCardMutex = "logging" <=> logPc = "write"
    /\ logPc = "write" => logData # NoRecord

\* C9 witness: a write failed after the file was created (header, no row)
\* and the task is back at the queue with the mutex released.
C9_Witness ==
    /\ logPc = "recv"
    /\ sdCardMutex = "free"
    /\ \E d \in Days : sdFiles[d].exists /\ sdFiles[d].rows = <<>>

SensorTickStep ==
    systemStatus'.total_readings + systemStatus'.failed_readings
        = systemStatus.total_readings + systemStatus.failed_readings + 1
\* The clock read of a tick taken now succeeds.
ClockReadOk == rtcFound /\ rtc >= Year2020 /\ rtc <= Year2100
\* The sensors that answer a valid value.
TempCValid(tempC) ==
    tempC # DEVICE_DISCONNECTED_C /\ tempC >= -55 /\ tempC <= 125
ShtEventValid(event) ==
    /\ event.ok
    /\ event.temperature >= -40 /\ event.temperature <= 125
    /\ event.relative_humidity >= 0 /\ event.relative_humidity <= 100
\* The reading a tick is to offer: the clock's time, the value of every
\* active sensor that answered a valid value, NaN for every other channel.
ExpectedReading(tempC, event, rawValue) ==
    [timestamp |-> rtc,
     ds18b20_temp |-> IF "DS18B20" \in activeSensors /\ TempCValid(tempC)
                        THEN Float(tempC) ELSE NAN,
     sht40_temp |-> IF "SHT40" \in activeSensors /\ ShtEventValid(event)
                      THEN Float(event.temperature) ELSE NAN,
     sht40_humidity |-> IF "SHT40" \in activeSensors /\ ShtEventValid(event)
                          THEN Float(event.relative_humidity) ELSE NAN,
     sen0193_moisture_raw |-> IF "SEN0193" \in activeSensors
                                THEN Float(rawValue) ELSE NAN]

\* C11: the enqueue of the sensor task never blocks: in a tick that finds
\* the raw queue full the reading is dropped, failed_readings goes up by one
\* (total_readings stays), the queue keeps its contents and the task is
\* back at its delay.
C11_FullRawQueueDropsAndCounts ==
    [][ ((SensorTickStep \/ rawDropped' # rawDropped)
           /\ RawQueueFull(rawReadingQueue)) =>
            /\ systemStatus'.failed_readings = systemStatus.failed_readings + 1
            /\ systemStatus'.total_readings = systemStatus.total_readings
            /\ rawReadingQueue' = rawReadingQueue
            /\ sensPc' = "run"
      ]_vars

\* C11 witness: a valid reading met the full raw queue and was dropped: the
\* queue is full, nothing was drained yet, one drop is counted.
C11_Witness ==
    /\ Len(rawReadingQueue) = RawQueueCap
    /\ rawDropped = 1
    /\ systemStatus.failed_readings = 1
    /\ systemStatus.total_readings = RawQueueCap

\* C12: no reading with timestamp 0 is ever in the raw queue; a tick whose
\* clock read fails enqueues nothing and increments failed_readings.
C12_NoZeroTimestampQueued ==
    [][ /\ \A i \in DOMAIN rawReadingQueue' :
             rawReadingQueue'[i].timestamp # 0
        /\ (SensorTickStep /\ ~ClockReadOk) =>
             /\ rawReadingQueue' = rawReadingQueue
             /\ systemStatus'.failed_readings
                  = systemStatus.failed_readings + 1
      ]_vars

\* C12 witness: ticks failed on the clock read (no reading was dropped on a
\* full queue), and a later tick, with the clock set, was accepted.
C12_Witness ==
    /\ systemStatus.failed_readings = 2
    /\ rawDropped = 0
    /\ Len(rawReadingQueue) = 1

\* C13: in a tick whose clock read succeeds exactly one reading is offered
\* to the raw queue whatever sensors fail (accepted, or dropped on the full
\* queue); in the reading the channels of the sensors that failed are NaN and
\* the channels of the sensors that answered carry the values read.
C13_OneReadingWhateverSensorsFail ==
    [][ (SensorTickStep /\ ClockReadOk) =>
            \/ /\ RawQueueFull(rawReadingQueue)
               /\ rawReadingQueue' = rawReadingQueue
               /\ rawDropped' = rawDropped + 1
            \/ /\ ~RawQueueFull(rawReadingQueue)
               /\ rawDropped' = rawDropped
               /\ systemStatus'.total_readings
                    = systemStatus.total_readings + 1
               /\ \E tempC \in TempCs, event \in ShtEvents,
                     rawValue \in RawADCs :
                    rawReadingQueue' =
                        Append(rawReadingQueue,
                               ExpectedReading(tempC, event, rawValue))
      ]_vars

\* C13 witness: the raw queue holds a reading of a tick in which the
\* DS18B20, an active sensor, failed and the SHT40 answered, and one of a
\* tick in which it was the other way round.
C13_Witness ==
    /\ {"DS18B20", "SHT40"} \subseteq activeSensors
    /\ \E i \in DOMAIN rawReadingQueue :
         /\ isnan(rawReadingQueue[i].ds18b20_temp)
         /\ ~isnan(rawReadingQueue[i].sht40_temp)
         /\ ~isnan(rawReadingQueue[i].sen0193_moisture_raw)
    /\ \E i \in DOMAIN rawReadingQueue :
         /\ ~isnan(rawReadingQueue[i].ds18b20_temp)
         /\ isnan(rawReadingQueue[i].sht40_temp)
         /\ isnan(rawReadingQueue[i].sht40_humidity)

\* The non-NaN values of channel ch in a sequence of readings, in order.
ChannelValues(readings, ch) ==
    SelectSeq([i \in DOMAIN readings |-> readings[i][ch]],
              LAMBDA x : ~isnan(x))
RECURSIVE SumOf(_)
SumOf(values) ==
    IF values = <<>> THEN Float(0)
    ELSE FloatAdd(Head(values), SumOf(Tail(values)))
MeanOf(values) == FloatDiv(SumOf(values), Len(values))
MinOf(values) ==
    CHOOSE v \in Range(values) : \A u \in Range(values) : ~FloatLess(u, v)
MaxOf(values) ==
    CHOOSE v \in Range(values) : \A u \in Range(values) : ~FloatLess(v, u)
\* avg, min, max are the statistics of values: NaN all three without values.
StatsOf(avg, min, max, values) ==
    IF values = <<>>
      THEN isnan(avg) /\ isnan(min) /\ isnan(max)
      ELSE /\ FloatEq(avg, MeanOf(values))
           /\ FloatEq(min, MinOf(values))
           /\ FloatEq(max, MaxOf(values))
Timestamps(readings) == {readings[i].timestamp : i \in DOMAIN readings}

C15_WindowStartNotAfterEnd ==
    aggPc = "send" => aggFields.start_timestamp <= aggFields.end_timestamp

\* C16: start_timestamp is the least and end_timestamp the greatest
\* timestamp of the readings drained in the tick.
C16_WindowBoundsAreMinMax ==
    aggPc = "send" =>
        /\ \A t \in Timestamps(drained) : aggFields.start_timestamp <= t
        /\ \A t \in Timestamps(drained) : t <= aggFields.end_timestamp
        /\ aggFields.start_timestamp \in Timestamps(drained)
        /\ aggFields.end_timestamp \in Timestamps(drained)

\* C17: a tick that drained no reading enqueues nothing, and a tick enqueues
\* at most one record: the stats queue and the set of enqueued records
\* change only in the step that ends a tick (send to sleep), by exactly the
\* one record of that tick, which has at least one reading; the step that
\* ends a tick without readings leaves both alone.
C17_AtMostOneRecordPerTick ==
    [][ /\ (enqueued' # enqueued \/ aggregatedDataQueue' # aggregatedDataQueue)
             => /\ aggPc = "send" /\ aggPc' = "tick"
                /\ aggFields.sample_count > 0
                /\ drained # <<>>
                /\ aggregatedDataQueue' = Append(aggregatedDataQueue, aggData)
                /\ enqueued' = enqueued \cup {aggData}
                /\ aggData \notin enqueued
        /\ (aggPc = "tick" /\ aggPc' = "send")
             => /\ drained' # <<>>
                /\ aggFields'.sample_count > 0
                /\ aggData' \notin enqueued \cup dropped
      ]_vars

\* C17 witness: a record was enqueued, then a tick drained nothing, and the
\* stats queue still holds the one record.
C17_Witness ==
    /\ lastTick = "empty"
    /\ aggPc = "tick"
    /\ emitted = 1
    /\ aggregatedDataQueue = <<1>>

\* C18: at the start of the drain of every tick the four statistics are as
\* constructed (count 0, sum 0, min +infinity, max -infinity) and both window
\* bounds are 0, also after a tick that drained nothing and after a tick
\* whose xQueueSend timed out.
C18_FreshAccumulatorsAtTickStart ==
    aggPc = "tick" =>
        /\ ds18b20Stats = RunningStats
        /\ sht40TempStats = RunningStats
        /\ sht40HumStats = RunningStats
        /\ soilMoistureStats = RunningStats
        /\ windowStartTime = 0
        /\ windowEndTime = 0
        /\ readingsCollected = 0

\* C18 witness: the task is at the start of a tick after a tick whose send
\* timed out.
C18_Witness ==
    /\ aggPc = "tick"
    /\ lastTick = "timeout"
    /\ dropped # {}

\* C19: every unit of data dropped on a full queue is counted in the status
\* record and the task that dropped it goes on with its next tick: a reading
\* dropped by the sensor task, and a record dropped by aggregationTask after
\* the timeout of its xQueueSend.
C19_EveryDropCounted ==
    [][ /\ rawDropped' # rawDropped =>
             /\ systemStatus'.failed_readings
                  = systemStatus.failed_readings + 1
             /\ sensPc' = "run"
        /\ dropped' # dropped =>
             /\ systemStatus' # systemStatus
             /\ aggPc' = "tick"
      ]_vars

\* C20: every reading the raw queue accepted is received by aggregationTask
\* exactly once and counted in exactly one record: the sample_count of all
\* records built so far and the length of the raw queue add up to
\* total_readings, the number of readings accepted.
C20_ReadingsConserved ==
    /\ sampleCountSum + Len(rawReadingQueue) = systemStatus.total_readings
    /\ aggPc = "send" => aggFields.sample_count = Len(drained)
    /\ aggPc = "tick" => drained = <<>>

\* C20 witness: two records built, of three readings in all, and no reading
\* waiting: every accepted reading is in a record.
C20_Witness ==
    /\ emitted = 2
    /\ sampleCountSum = 3
    /\ systemStatus.total_readings = 3
    /\ rawReadingQueue = <<>>

\* ------------------------------------------- claims on the upload connection
\* The step of cloudUploadTask in which connectToWiFi() fails, and the step in
\* which connectToMQTT() fails.
UpWiFiFailStep == uploadCycles' = uploadCycles + 1 /\ ~wifiConnected'

UpMqttFailStep == upPc = "mqtt" /\ upPc' # "mqtt" /\ ~mqttConnected'

\* C21: an upload cycle in which the WiFi or the MQTT connection fails leaves
\* the stats queue untouched by cloudUploadTask: the failing step goes to the
\* sleep with nothing received in the cycle and nothing published, and the
\* task receives and publishes only while both connections of its cycle are
\* up.
C21_FailedConnectLeavesQueue ==
    [][ /\ (UpWiFiFailStep \/ UpMqttFailStep) =>
             /\ upPc' = "sleep"
             /\ aggregatedDataQueue' = aggregatedDataQueue
             /\ published' = published
             /\ upReceived' = upReceived
             /\ cycRecv' = <<>>
        /\ (upReceived' # upReceived \/ published' # published) =>
             wifiConnected /\ mqttConnected
      ]_vars

\* C21 witness: the task sleeps after a cycle whose MQTT connection failed,
\* a record waiting in the queue and nothing received by the task.
C21_Witness ==
    /\ upPc = "sleep"
    /\ failedUploads = 1
    /\ systemStatus.wifi_connected
    /\ aggregatedDataQueue # <<>>
    /\ upReceived = <<>>

\* C22: when the WiFi connection fails, an error counter of the status record
\* has increased before cloudUploadTask sleeps.
C22_WiFiFailureCounted ==
    [][ UpWiFiFailStep =>
          \/ systemStatus'.mqtt_errors > systemStatus.mqtt_errors
          \/ systemStatus'.sd_write_errors > systemStatus.sd_write_errors
          \/ systemStatus'.failed_readings > systemStatus.failed_readings
      ]_vars

\* C23: when WiFi connects and the MQTT connection fails, cloudUploadTask
\* tears the WiFi connection down, increments the network error counter by
\* exactly one, skips the drain and sleeps.
C23_MqttFailureTearsDownAndCounts ==
    [][ UpMqttFailStep =>
          /\ wifiMode' = "WIFI_OFF"
          /\ ~wifiLink'
          /\ ~wifiConnected'
          /\ systemStatus'.mqtt_errors = systemStatus.mqtt_errors + 1
          /\ aggregatedDataQueue' = aggregatedDataQueue
          /\ cycRecv' = <<>>
          /\ upPc' = "sleep"
      ]_vars

\* C23 witness: the task sleeps after WiFi connected and the MQTT connection
\* failed in both of two cycles.
C23_Witness ==
    /\ upPc = "sleep"
    /\ uploadCycles = 2
    /\ systemStatus.mqtt_errors = 2
    /\ systemStatus.wifi_connected
    /\ upReceived = <<>>
    /\ wifiMode = "WIFI_OFF"

\* C24: wherever cloudUploadTask sleeps, the MQTT connection is down and the
\* WiFi radio is off.
C24_SleepsWithRadioOff ==
    upPc = "sleep" => wifiMode = "WIFI_OFF" /\ ~wifiLink /\ ~mqttLink

\* ------------------------------------------------------- claims on Time-Sync
\* The step in which performTimeSync() returns to the loop that called it.
SyncReturns ==
    /\ tsPc \in {"connect", "ntp", "update", "cleanup"}
    /\ tsPc' \notin {"ntp", "update", "cleanup"}
    /\ tsPc' # tsPc

\* The step in which updateRTCFromNTP() runs.
UpdateStep == tsPc = "update" /\ tsPc' = "cleanup"

\* C25: the startup phase of timeSyncTask makes at most three attempts, none
\* after the first success; an attempt after the first begins only when the
\* 30 s delay that follows a failed attempt is over; and when the phase ends,
\* by a success or by the third failure, the task is in its periodic phase.
C25_StartupAtMostThreeAttempts ==
    [][ /\ attempts' # attempts =>
             /\ attempts' = attempts + 1
             /\ attempts' <= maxAttempts
             /\ ~initialSyncComplete
             /\ ~tsSuccess
             /\ tsPc = IF attempts = 0 THEN "boot" ELSE "retry"
        /\ (SyncReturns /\ tsPhase = "startup") =>
             tsPc' = IF tsSuccess \/ attempts = maxAttempts
                       THEN "periodic" ELSE "retry"
      ]_vars

\* C25 witness: three startup attempts failed and the task is in its
\* periodic phase, with no sync completed.
C25_Witness ==
    /\ attempts = maxAttempts
    /\ ~initialSyncComplete
    /\ tsPc = "periodic"
    /\ syncCycles = 0

\* C26: whatever step of a sync attempt fails, and when none does,
\* performTimeSync() returns through its cleanup, which leaves WiFi
\* disconnected, the radio off and the status flag false.
C26_AttemptEndsWithRadioOff ==
    [][ SyncReturns =>
          /\ tsPc = "cleanup"
          /\ wifiMode' = "WIFI_OFF"
          /\ ~wifiLink'
          /\ ~systemStatus'.wifi_connected
      ]_vars

\* C26 witness: a periodic attempt that failed at the NTP step, WiFi having
\* connected, has returned with the radio off.
C26_Witness ==
    /\ tsPc = "periodic"
    /\ tsPhase = "periodic"
    /\ tsFailure = "ntp"
    /\ wifiMode = "WIFI_OFF"
    /\ ~wifiLink

\* C27: an attempt that fails because the fetched time is before 2020-01-01
\* or because the read-back differs from it by more than 2 s has not written
\* the hardware clock: rtc.adjust was not called and the clock holds what it
\* held.
C27_ImplausibleTimeLeavesClockUnwritten ==
    [][ (UpdateStep /\ ~tsSuccess' /\ sensPc = "run"
           /\ (tsNow' < Year2020 \/ (rtcFound /\ abs(rtc' - tsNow') > SyncTolerance)))
          => ~tsWrote' /\ rtc' = rtc
      ]_vars

\* C28: an attempt whose read-back differs from the written time by more
\* than 2 s returns failure and leaves initialSyncComplete and lastSyncTime
\* as they were; the two change only in an attempt that wrote the clock and
\* read back a time within 2 s of the time written, which it then returns
\* success for.
C28_SyncStateOnlyOnVerifiedWrite ==
    [][ /\ (UpdateStep /\ tsWrote' /\ abs(rtc' - tsNow') > SyncTolerance) =>
             /\ ~tsSuccess'
             /\ initialSyncComplete' = initialSyncComplete
             /\ lastSyncTime' = lastSyncTime
        /\ (initialSyncComplete' # initialSyncComplete
              \/ lastSyncTime' # lastSyncTime) =>
             /\ UpdateStep
             /\ tsWrote'
             /\ ~(abs(rtc' - tsNow') > SyncTolerance)
             /\ tsSuccess'
             /\ initialSyncComplete'
             /\ lastSyncTime' = tsNow'
      ]_vars

\* C28 witness: after a sync that completed at time 1, an attempt wrote the
\* clock for the time 3, read back 0 and failed: lastSyncTime is still 1.
C28_Witness ==
    /\ tsPc = "cleanup"
    /\ tsWrote
    /\ tsNow = 3
    /\ rtc = 0
    /\ ~tsSuccess
    /\ initialSyncComplete
    /\ lastSyncTime = 1

\* ---------------------------------------------------- claims on blocking
\* C30: the pipeline never deadlocks.  A task waiting for sdCardMutex held by
\* someone else has its 5 s timeout to leave the wait, and its holder can
\* give the mutex back; a task waiting to send to the full stats queue has
\* its 1 s timeout; loggingTask, whose receive has no timeout, never waits
\* on the queue with the mutex in its hand, and while it waits on the empty
\* queue aggregationTask, which fills the queue, is not blocked: its send
\* goes through.  The receive of cloudUploadTask does not wait at all.
C30_NoDeadlock ==
    /\ (logPc = "take" /\ sdCardMutex # "free") =>
          ENABLED LogTakeTimeout /\ ENABLED OtherGive
    /\ (logPc = "take" /\ sdCardMutex = "free") => ENABLED LogTake
    /\ (aggPc = "send" /\ QueueFull(aggregatedDataQueue)) =>
          ENABLED AggSendTimeout
    /\ (logPc = "recv" /\ aggregatedDataQueue = <<>>) =>
          /\ sdCardMutex # "logging"
          /\ aggPc = "send" => ENABLED AggSend
    /\ (logPc = "recv" /\ aggregatedDataQueue # <<>>) => ENABLED LogReceive
    /\ upPc = "drain" => ENABLED UpReceive \/ ENABLED UpDrainEmpty

\* C30 witness: loggingTask waits for the mutex another holder has, the
\* stats queue full behind it, while cloudUploadTask is in its drain loop.
C30_Witness ==
    /\ logPc = "take"
    /\ sdCardMutex = "other"
    /\ QueueFull(aggregatedDataQueue)
    /\ upPc = "drain"

LogLeaves(pc) == logPc = pc /\ logPc' # pc

\* C31: with the card marked unavailable, the record loggingTask receives
\* leads to one remount attempt before any write.  A failed remount gives the
\* record up: sd_write_errors goes up by one, no file is touched and the task
\* is back at its receive.  A remount that succeeds marks the card available
\* and the task goes on, with the same record, to the mutex and the write.
\* Files change only in the write step, with the card marked available.
C31_RemountOnceBeforeWrite ==
    [][ /\ LogLeaves("recv") =>
             /\ logPc' = IF sdCardInitialized THEN "take" ELSE "remount"
             /\ sdFiles' = sdFiles
        /\ (logPc = "remount" /\ logPc' = "remount") =>
             /\ sdCardInitialized' = sdCardInitialized
             /\ systemStatus'.sd_write_errors = systemStatus.sd_write_errors
        /\ LogLeaves("remount") =>
             /\ sdFiles' = sdFiles
             /\ successfulWrites' = successfulWrites
             /\ IF sdCardInitialized'
                  THEN /\ systemStatus'.sd_card_ok
                       /\ systemStatus'.sd_write_errors
                            = systemStatus.sd_write_errors
                       /\ failedWrites' = failedWrites
                       /\ logData' = logData
                       /\ logPc' = "take"
                  ELSE /\ ~systemStatus'.sd_card_ok
                       /\ systemStatus'.sd_write_errors
                            = systemStatus.sd_write_errors + 1
                       /\ failedWrites' = failedWrites + 1
                       /\ logData' = NoRecord
                       /\ logPc' = "recv"
        /\ LogLeaves("take") => logPc' = "write" /\ logData' = logData
        /\ sdFiles' # sdFiles =>
             /\ logPc = "write"
             /\ sdCardInitialized
             /\ logData = logReceived[Len(logReceived)]
      ]_vars

\* C31 witness: the first mount failed, the remount for record 1 failed and
\* record 1 was given up; the remount for record 2 succeeded and record 2 is
\* the one row on the card.
C31_Witness ==
    /\ logPc = "recv"
    /\ logReceived = <<1, 2>>
    /\ systemStatus.sd_write_errors = 1
    /\ failedWrites = 1
    /\ successfulWrites = 1
    /\ sdCardInitialized
    /\ sdFiles[DayOf(2)].headers = 1
    /\ sdFiles[DayOf(2)].rows = <<2>>

\* C32: over any sequence of record writes the header line of a day's file
\* is written at most once, by the write that finds the file absent; and
\* every write that succeeds appends one row, the record's, also when the
\* file holds a row of that record already: no row is appended otherwise.
C32_HeaderOncePerFileRowPerWrite ==
    [][ /\ \A d \in Days :
             /\ sdFiles'[d].headers <= 1
             /\ sdFiles'[d].headers # sdFiles[d].headers =>
                  /\ logPc = "write"
                  /\ DayOf(logData) = d
                  /\ ~sdFiles[d].exists
                  /\ sdFiles'[d].headers = sdFiles[d].headers + 1
        /\ successfulWrites' = successfulWrites + 1 =>
             /\ sdFiles'[DayOf(logData)].rows
                  = Append(sdFiles[DayOf(logData)].rows, logData)
             /\ \A d \in Days \ {DayOf(logData)} :
                  sdFiles'[d].rows = sdFiles[d].rows
        /\ successfulWrites' = successfulWrites =>
             \A d \in Days : sdFiles'[d].rows = sdFiles[d].rows
      ]_vars

\* C32 witness: record 1 was delivered and written twice, then record 2: the
\* file of their day has its one header line and the rows 1, 1, 2.
C32_Witness ==
    /\ logPc = "recv"
    /\ logReceived = <<1, 1, 2>>
    /\ sdFiles[DayOf(1)].headers = 1
    /\ sdFiles[DayOf(1)].rows = <<1, 1, 2>>
    /\ successfulWrites = 3

\* ------------------------------------------------ claims on the status record
\* C33: each field of the status record has one writer task: no field is
\* assigned by two tasks.
C33_OneWriterPerStatusField ==
    \A f \in StatusFields : Cardinality(statusWriters[f]) <= 1

\* --------------------------------------------------- claims on the CSV row
\* The commas of a text, and its fields: the tokens between two commas, the
\* newline left out.
CommaCount(text) == Cardinality({i \in DOMAIN text : text[i].kind = "comma"})

RECURSIVE SplitFields(_)
SplitFields(text) ==
    IF \A i \in DOMAIN text : text[i].kind # "comma" THEN <<text>>
    ELSE LET k == CHOOSE i \in DOMAIN text :
                     /\ text[i].kind = "comma"
                     /\ \A j \in 1..(i - 1) : text[j].kind # "comma"
         IN  <<SubSeq(text, 1, k - 1)>>
             \o SplitFields(SubSeq(text, k + 1, Len(text)))

FieldsOf(line) == SplitFields(SubSeq(line, 1, Len(line) - 1))

\* The three fields of the channel whose first column is col are empty when
\* the channel has no data and else hold its three statistics.
ChannelFieldsOk(fields, col, avg, digits) ==
    IF isnan(avg)
      THEN \A i \in col..(col + 2) : fields[i] = <<>>
      ELSE \A i \in col..(col + 2) :
              Len(fields[i]) = 1 /\ fields[i][1].kind = "fixed"
                 /\ fields[i][1].digits = digits

\* C34: every row written has 14 commas, the header's, and with them the
\* header's 15 fields, whatever channels have data; a channel without data
\* is three empty fields, and no field is the text nan.
C34_RowHasHeaderFields ==
    csvWritten # NoRow =>
      LET fields == FieldsOf(csvWritten.text)
          data == csvWritten.data
      IN  /\ CommaCount(csvWritten.text) = 14
          /\ CommaCount(csvWritten.text) = CommaCount(HeaderLine)
          /\ Len(fields) = 15
          /\ Len(FieldsOf(HeaderLine)) = 15
          /\ csvWritten.text[Len(csvWritten.text)] = Newline
          /\ \A i \in DOMAIN csvWritten.text :
                csvWritten.text[i].kind \notin {"nan", "inf", "newline"}
                  \/ i = Len(csvWritten.text)
          /\ \A i \in 1..3 : Len(fields[i]) = 1 /\ fields[i][1].kind = "int"
          /\ ChannelFieldsOk(fields, 4, data.ds18b20_avg, 2)
          /\ ChannelFieldsOk(fields, 7, data.sht40_temp_avg, 2)
          /\ ChannelFieldsOk(fields, 10, data.sht40_hum_avg, 1)
          /\ ChannelFieldsOk(fields, 13, data.soil_moisture_avg, 0)

\* C34 witness: the row of a record whose SHT40 channels and soil channel
\* have no data and whose DS18B20 channel has: nine empty fields.
C34_Witness ==
    /\ csvWritten # NoRow
    /\ ~isnan(csvWritten.data.ds18b20_avg)
    /\ isnan(csvWritten.data.sht40_temp_avg)
    /\ isnan(csvWritten.data.sht40_hum_avg)
    /\ isnan(csvWritten.data.soil_moisture_avg)
    /\ Cardinality({i \in 1..15 : FieldsOf(csvWritten.text)[i] = <<>>}) = 9

\* ----------------------------------------------- claims on the tick counters
\* C35: a completed tick of sensorReadingTask has increased exactly one of
\* total_readings and failed_readings, by one, and nothing else changes
\* them: at every tick boundary their sum is the number of ticks completed.
C35_CountersSumToTicks ==
    [][ /\ ticks' = ticks + 1 =>
             \/ /\ systemStatus'.total_readings
                     = systemStatus.total_readings + 1
                /\ systemStatus'.failed_readings
                     = systemStatus.failed_readings
             \/ /\ systemStatus'.failed_readings
                     = systemStatus.failed_readings + 1
                /\ systemStatus'.total_readings
                     = systemStatus.total_readings
        /\ ticks' = ticks =>
             /\ systemStatus'.total_readings = systemStatus.total_readings
             /\ systemStatus'.failed_readings = systemStatus.failed_readings
        /\ systemStatus'.total_readings + systemStatus'.failed_readings
             = ticks'
      ]_vars

\* C35 witness: the ticks of the run are completed, the first ones filled
\* the raw queue and the last one was refused by the full queue.
C35_Witness ==
    /\ ticks = MaxTicks
    /\ systemStatus.total_readings = RawQueueCap
    /\ systemStatus.failed_readings = 1
    /\ rawDropped = 1
    /\ RawQueueFull(rawReadingQueue)

\* ---------------------------------------------------- claims on duplicates
\* C36: no record is published successfully more than once and no record
\* has more than one row on the card, whatever publishes fail and whatever
\* records are sent back to the front of the queue.
C36_NoDuplicatePublishOrRow ==
    \A r \in Ids :
        /\ Occurrences(published, r) <= 1
        /\ RowCount(sdFiles, r) <= 1
        /\ \A d \in Days \ {DayOf(r)} : Occurrences(sdFiles[d].rows, r) = 0

\* C36 witness: the publish of record 1 failed, the record was sent back to
\* the front, received again in the next cycle and published, once; record
\* 2 has its one row on the card.
C36_Witness ==
    /\ upReceived = <<1, 1>>
    /\ published = <<1>>
    /\ lostOnRequeue = {}
    /\ RowCount(sdFiles, 2) = 1
    /\ upPc = "sleep"

\* ------------------------------------------------- claims on the WiFi radio
\* cloudUploadTask has connected WiFi in its cycle and not yet torn it down;
\* timeSyncTask has called connectForTimeSync and not yet run its cleanup.
UploadUsesRadio == upPc \in {"mqtt", "drain", "publish", "teardown"}

TimeSyncUsesRadio == tsPc \in {"ntp", "update", "cleanup"}

\* The steps in which a task restarts the connection or turns the radio
\* off: connectToWiFi, disconnectWiFi (after a failed connectToMQTT and in
\* the teardown); connectForTimeSync and the cleanup of performTimeSync.
UploadRadioStep ==
    \/ uploadCycles' # uploadCycles
    \/ upPc \in {"mqtt", "teardown"} /\ upPc' = "sleep"

TimeSyncRadioStep == tsPc \in {"connect", "cleanup"} /\ tsPc' # tsPc

\* C37: the two tasks never use the radio at overlapping times: while one of
\* them is between its connect and its own teardown, the other neither
\* restarts the connection nor turns the radio off.
C37_RadioUsesDoNotOverlap ==
    [][ /\ UploadUsesRadio => ~TimeSyncRadioStep
        /\ TimeSyncUsesRadio => ~UploadRadioStep
      ]_vars

\* ------------------------------------------------------ claims on the clock
\* C38: the read of the clock by the sensor task and the write and read-back
\* of the clock by timeSyncTask are never in progress at the same time: no
\* tick of the sensor task falls between timeSyncTask's write of the clock
\* and its read-back.
C38_ClockAccessesExclusive ==
    [][ ticks' # ticks => tsPc # "readback" ]_vars

\* ----------------------------------------- claims on the connectivity flags
\* C39: whenever cloudUploadTask sleeps between two cycles, the flags
\* wifi_connected and mqtt_connected of the status record are both false.
C39_FlagsFalseWhileSleeping ==
    upPc = "sleep" =>
        ~systemStatus.wifi_connected /\ ~systemStatus.mqtt_connected

\* --------------------------------------------------- claims on the NTP poll
\* The step in which syncTimeWithNTP() runs, and its result.
NtpStep == tsPc = "ntp" /\ tsPc' # "ntp"

NtpReturnedTrue == tsPc' = "update"

\* C40: syncTimeWithNTP returns success whenever one of its getLocalTime
\* polls succeeded, and failure only when every poll it made failed.
C40_SuccessIffAPollSucceeded ==
    [][ NtpStep => (NtpReturnedTrue <=> tsPolled') ]_vars

=============================================================================
